---- MODULE Spec2Model ----
(***************************************************************************)
(* Verification model of the 22lan toolchain: the extended-to-core         *)
(* lowering passes (libs/extension_resolver.py, libs/macro_resolver.py),   *)
(* the compile-time stack and stack-initializer codec (langs/base.py) and  *)
(* the native backend with the machine its output runs on                  *)
(* (langs/lan22_cxx.py).                                                   *)
(*                                                                         *)
(* Python integers are unbounded and the machine registers are 64 bits     *)
(* wide, so a number is represented by the set of positions of its one     *)
(* bits (bit 0 is the least significant): 5 is {0, 2}.  Small numbers      *)
(* (bytes, counters, bit widths) are plain integers.                       *)
(***************************************************************************)
EXTENDS Integers, Sequences, FiniteSets, TLC

VARIABLES
    phase,      \* position of the pipeline / of the run
    src,        \* the source lines given to the lowering passes
    code,       \* ExtensionResolver.code, MacroResolver.code: the current line list
    log,        \* what logger.error has reported so far
    funcs,      \* ExtensionResolver.funcs: name -> id
    labels,     \* ExtensionResolver.labels: func index -> (name -> id)
    cur,        \* locals of the pass that is running
    cts,        \* BasicGeneratorFromLan22.compile_time_stack._value
    steps,      \* Function.steps of the function being generated
    ip,         \* index of the next line to translate / next step to run
    regs,       \* r0..r3 of the emitted program
    stk,        \* s0..s2 of the emitted program (top is the last element)
    snap,       \* registers and stacks as they were before the sequence ran
    macros,     \* MacroResolver.macros: name -> [argnames, code]
    debug,      \* args.debug of the resolver
    depth,      \* how many calls of _expand_macro_recursive are on the stack
    b32,        \* BasicGeneratorFromLan22.initial_stacks_base32
    initial,    \* BasicGeneratorFromLan22.initial_s0, initial_s1, initial_s2
    funcinfo    \* the rows of the funcinfo file: [name, type, id]

vars == <<phase, src, code, log, funcs, labels, cur, cts, steps, ip, regs, stk, snap,
          macros, debug, depth, b32, initial, funcinfo>>

----------------------------------------------------------------------------
(* Numbers as sets of bit positions *)

RegWidth == 64

MaxOf(S) == CHOOSE x \in S : \A y \in S : y <= x

MinOf(S) == CHOOSE x \in S : \A y \in S : x <= y

\* int.bit_length()
BitLen(b) == IF b = {} THEN 0 ELSE MaxOf(b) + 1

\* a small natural number as a set of bit positions
Nat2Bits(n) == {i \in 0..30 : (n \div (2^i)) % 2 = 1}

RECURSIVE Bits2Nat(_)
Bits2Nat(b) == IF b = {} THEN 0
               ELSE LET i == MinOf(b) IN 2^i + Bits2Nat(b \ {i})

\* value << n and value >> n on unbounded integers
Shl(b, n) == {i + n : i \in b}

Shr(b, n) == {i - n : i \in {j \in b : j >= n}}

\* value - 1, for value > 0
Dec(b) == LET j == MinOf(b) IN (b \ {j}) \cup (0..(j - 1))

\* f"{value:b}" of a non-negative value: its digits, most significant first
Binary(b) ==
    LET n == IF b = {} THEN 1 ELSE BitLen(b)
    IN [i \in 1..n |-> IF (n - i) \in b THEN "1" ELSE "0"]

\* f"{value:b}" of any value: a negative one is printed with a leading "-"
SignedBinary(neg, mag) == IF neg THEN <<"-">> \o Binary(mag) ELSE Binary(mag)

----------------------------------------------------------------------------
(* Lines of code.  Every line is a record of the same shape:               *)
(*   k = "ins"     a core instruction, op its name                         *)
(*   k = "lit"     ${number:bitwidth}; neg/v the number, w the bitwidth    *)
(*   k = "ref"     @{name}                                                 *)
(*   k = "pseudo"  \op arg                                                 *)
(*   k = "dep"     %op expr, expr a constant v or the symbol __F<fi>L_name *)
(*   k = "err"     the "!!!!!!!error!!!!!!!" marker line                   *)
(*   k = "comment" ;text, op the first lower-case word of the text         *)

NoWidth == -1

Line(k, op, name, fi, neg, v, w) ==
    [k |-> k, op |-> op, name |-> name, fi |-> fi, neg |-> neg, v |-> v, w |-> w]

Ins(op) == Line("ins", op, "", -1, FALSE, {}, NoWidth)

Lit(neg, v, w) == Line("lit", "", "", -1, neg, v, w)

Ref(name) == Line("ref", "", name, -1, FALSE, {}, NoWidth)

ErrLine == Line("err", "", "", -1, FALSE, {}, NoWidth)

RECURSIVE Flatten(_)
Flatten(ss) == IF ss = <<>> THEN <<>> ELSE Head(ss) \o Flatten(Tail(ss))

----------------------------------------------------------------------------
(* Literal pass *)

DefaultBitwidth == 64

\* 2**w - m computed as the one's complement
PowMinus_ones_complement(w, m) ==
    IF BitLen(m) <= w \/ m = {w}
    THEN [neg |-> FALSE, mag |-> (0..(w - 1)) \ m]
    ELSE LET j == MinOf({i \in m : i >= w})
         IN [neg |-> TRUE, mag |-> (m \ {j}) \cup (w..(j - 1))]

\* 2**w - m for 0 < m: non-negative when m <= 2**w, else negative.
\* The result is [neg, mag] with mag the magnitude.
PowMinus(w, m) ==
    IF BitLen(m) <= w \/ m = {w}
    THEN [neg |-> FALSE, mag |-> (0..(w - 1)) \ Dec(m)]
    ELSE LET j == MinOf({i \in m : i >= w})
         IN [neg |-> TRUE, mag |-> (m \ {j}) \cup (w..(j - 1))]

\* the digits emitted least significant first
resolve_literal_line_lsb_first(line) ==
    IF line.k # "lit" THEN <<line>>
    ELSE LET bitwidth == IF line.w # NoWidth THEN line.w ELSE DefaultBitwidth
             x == IF line.neg THEN PowMinus(bitwidth, line.v) ELSE [neg |-> FALSE, mag |-> line.v]
             digits == SignedBinary(x.neg, x.mag)
         IN IF ~line.neg /\ Len(digits) > bitwidth THEN <<ErrLine>>
            ELSE [i \in 1..Len(digits) |->
                    Ins(IF digits[Len(digits) + 1 - i] = "1" THEN "one" ELSE "zero")]

\* the width check left out
resolve_literal_line_no_check(line) ==
    IF line.k # "lit" THEN <<line>>
    ELSE LET bitwidth == IF line.w # NoWidth THEN line.w ELSE DefaultBitwidth
             x == IF line.neg THEN PowMinus(bitwidth, line.v) ELSE [neg |-> FALSE, mag |-> line.v]
             digits == SignedBinary(x.neg, x.mag)
         IN [i \in 1..Len(digits) |-> Ins(IF digits[i] = "1" THEN "one" ELSE "zero")]

\* ExtensionResolver.resolve_literal, for one line: the lines it adds
resolve_literal_line(line) ==
    IF line.k # "lit" THEN <<line>>
    ELSE LET bitwidth == IF line.w # NoWidth THEN line.w ELSE DefaultBitwidth
         IN IF ~line.neg
            THEN LET binary == Binary(line.v)
                 IN IF Len(binary) > bitwidth
                    THEN <<ErrLine>>
                    ELSE [i \in 1..Len(binary) |->
                            Ins(IF binary[i] = "1" THEN "one" ELSE "zero")]
            ELSE LET x == PowMinus(bitwidth, line.v)
                     digits == SignedBinary(x.neg, x.mag)
                 IN [i \in 1..Len(digits) |->
                        Ins(IF digits[i] = "1" THEN "one" ELSE "zero")]

\* what resolve_literal logs for one line
resolve_literal_log(line) ==
    IF line.k = "lit" /\ ~line.neg
       /\ Len(Binary(line.v)) > (IF line.w # NoWidth THEN line.w ELSE DefaultBitwidth)
    THEN <<"cannot be expressed">>
    ELSE <<>>


----------------------------------------------------------------------------
(* Function table: name -> [neg, id], the id a signed unbounded integer *)

FuncId(neg, id) == [neg |-> neg, id |-> id]

\* ExtensionResolver.resolve_funcref, for one line
resolve_funcref_line(fs, line) ==
    IF line.k # "ref" THEN <<line>>
    ELSE <<Lit(fs[line.name].neg, fs[line.name].id, NoWidth)>>

\* self.funcs[name] raises KeyError for a name that is not in the table
funcref_raises(fs, c) == \E i \in 1..Len(c) : c[i].k = "ref" /\ c[i].name \notin DOMAIN fs

----------------------------------------------------------------------------
(* Pseudo-op pass 1 *)

resolve_callfunc_no_restore(fs, func_name) ==
    LET func_id == fs[func_name]
        num_shift == Len(SignedBinary(func_id.neg, func_id.id)) \div 8
        shift == <<Ins("lshift"), Ins("xchg23"), Ins("xchg03"), Ins("pushl8"), Ins("pop8s0")>>
    IN <<Ref(func_name), Ins("pushl8"), Ins("pop8s0")>>
       \o (IF num_shift # 0
           THEN <<Ins("push8s1"), Ins("xchg13"), Ins("xchg03"),
                  Lit(FALSE, {3}, NoWidth), Ins("pop8s0"), Ins("xchg03"), Ins("xchg13")>>
                \o Flatten([i \in 1..num_shift |-> shift])
           ELSE <<>>)
       \o <<Ins("call")>>

\* ExtensionResolver.resolve_callfunc
resolve_callfunc(fs, func_name) ==
    LET func_id == fs[func_name]
        num_shift == Len(SignedBinary(func_id.neg, func_id.id)) \div 8
        shift == <<Ins("lshift"), Ins("xchg23"), Ins("xchg03"), Ins("pushl8"), Ins("pop8s0")>>
    IN <<Ref(func_name), Ins("pushl8"), Ins("pop8s0")>>
       \o (IF num_shift # 0
           THEN <<Ins("push8s1"), Ins("xchg13"), Ins("xchg03"),
                  Lit(FALSE, {3}, NoWidth), Ins("pop8s0"), Ins("xchg03"), Ins("xchg13")>>
                \o Flatten([i \in 1..num_shift |-> shift])
                \o <<Ins("pop8s1")>>
           ELSE <<>>)
       \o <<Ins("call")>>

EmptyFn == [x \in {} |-> 0]

\* the word operation_match["op"] finds: the first run of [a-z0-9_] in the line
FirstWord(line) ==
    CASE line.k \in {"ins", "pseudo", "dep", "comment"} -> line.op
      [] line.k = "ref" -> line.name
      [] line.k = "err" -> "error"
      [] OTHER -> "0"

\* state of the scan of resolve_pseudo_ops before its first line
Pass1Start(lbls) ==
    [result |-> <<>>, current_func_index |-> 0, current_autolabel_id |-> 0,
     labels |-> lbls, log |-> <<>>, raised |-> FALSE]

\* one iteration of the loop of resolve_pseudo_ops
Pass1Line(fs, st, line) ==
    LET op == FirstWord(line)
        lbl0 == IF op = "startfunc"
                THEN (st.current_func_index :> EmptyFn) @@ st.labels
                ELSE st.labels
        idx == IF op = "endfunc" THEN st.current_func_index + 1 ELSE st.current_func_index
        aid == IF op = "endfunc" THEN 0 ELSE st.current_autolabel_id
        st1 == [st EXCEPT !.labels = lbl0, !.current_func_index = idx,
                          !.current_autolabel_id = aid]
        add(ls) == [st1 EXCEPT !.result = @ \o ls]
    IN IF st.raised THEN st
       ELSE IF line.k # "pseudo" THEN add(<<line>>)
       ELSE CASE line.op = "func" -> add(<<line>>)
              [] line.op = "call" ->
                    IF line.name \in DOMAIN fs
                    THEN add(resolve_callfunc(fs, line.name))
                    ELSE [st1 EXCEPT !.raised = TRUE]
              [] line.op = "pushl8" ->
                    add(<<Lit(line.neg, line.v, 8), Ins("pushl8")>>)
              [] line.op = "pushl64" ->
                    add(<<Lit(line.neg, line.v, 64)>> \o [i \in 1..8 |-> Ins("pushl8")])
              [] line.op = "autolabel" ->
                    IF idx \in DOMAIN lbl0
                    THEN [add(<<Lit(FALSE, Nat2Bits(aid), NoWidth), Ins("deflabel")>>)
                            EXCEPT !.labels = [lbl0 EXCEPT ![idx] = (line.name :> aid) @@ @],
                                   !.current_autolabel_id = aid + 1]
                    ELSE [add(<<Lit(FALSE, Nat2Bits(aid), NoWidth), Ins("deflabel")>>)
                            EXCEPT !.raised = TRUE]
              [] line.op \in {"autopushltor0", "autoliteral"} ->
                    add(<<Line("dep", line.op, line.name,
                               IF line.name = "" THEN -1 ELSE idx,
                               line.neg, line.v, NoWidth)>>)
              [] OTHER ->
                    [add(<<ErrLine>>) EXCEPT !.log = @ \o <<"unknown pseudo operation">>]

RECURSIVE Pass1Scan(_, _, _)
\* ExtensionResolver.resolve_pseudo_ops: the loop over self.code
Pass1Scan(fs, st, c) ==
    IF c = <<>> THEN st ELSE Pass1Scan(fs, Pass1Line(fs, st, Head(c)), Tail(c))


----------------------------------------------------------------------------
(* Pseudo-op pass 2 *)

\* the result of eval when int() raises: a symbol no label table entry replaces
Unresolved == [ok |-> FALSE, value |-> {}]

\* ExtensionResolver.eval: every symbol __F<i>L_<name> is replaced by labels[i][name]
eval(lbls, line) ==
    IF line.name = "" THEN [ok |-> TRUE, value |-> line.v]
    ELSE IF line.fi \in DOMAIN lbls /\ line.name \in DOMAIN lbls[line.fi]
         THEN [ok |-> TRUE, value |-> Nat2Bits(lbls[line.fi][line.name])]
         ELSE Unresolved

\* value.to_bytes(size, "big")
ToBytes(value, size) ==
    [i \in 1..size |-> Bits2Nat(Shr(value, 8 * (size - i)) \cap (0..7))]

\* math.ceil(len(f"{value:b}") / 8)
ByteSize(value) == (Len(Binary(value)) + 7) \div 8

autopushltor0_no_restore(value) ==
    LET size == ByteSize(value)
        bytes == ToBytes(value, size)
        load(i) == <<Lit(FALSE, Nat2Bits(bytes[i]), NoWidth), Ins("pushl8"), Ins("pop8s0")>>
        next(i) == <<Ins("lshift"), Ins("xchg23"), Ins("xchg03"), Ins("xchg23")>> \o load(i)
    IN (IF size >= 2
        THEN <<Ins("xchg13"), Lit(FALSE, {3}, NoWidth), Ins("pushl8"), Ins("pop8s0"),
               Ins("xchg03"), Ins("xchg13"), Ins("xchg03")>>
        ELSE <<>>)
       \o load(1)
       \o Flatten([i \in 1..(size - 1) |-> next(i + 1)])

\* the "autopushltor0" branch of resolve_dependant_pseudo_ops
autopushltor0(value) ==
    LET size == ByteSize(value)
        bytes == ToBytes(value, size)
        load(i) == <<Lit(FALSE, Nat2Bits(bytes[i]), NoWidth), Ins("pushl8"), Ins("pop8s0")>>
        next(i) == <<Ins("lshift"), Ins("xchg23"), Ins("xchg03"), Ins("xchg23")>> \o load(i)
    IN (IF size >= 2
        THEN <<Ins("xchg13"), Lit(FALSE, {3}, NoWidth), Ins("pushl8"), Ins("pop8s0"),
               Ins("xchg03"), Ins("xchg13"), Ins("xchg03")>>
        ELSE <<>>)
       \o load(1)
       \o Flatten([i \in 1..(size - 1) |-> next(i + 1)])
       \o (IF size >= 2 THEN <<Ins("xchg13")>> ELSE <<>>)

\* one iteration of the loop of resolve_dependant_pseudo_ops: the lines added
Pass2Line(lbls, line) ==
    IF line.k # "dep" THEN <<line>>
    ELSE CASE line.op = "autopushltor0" -> autopushltor0(eval(lbls, line).value)
           [] line.op = "autoliteral" -> <<Lit(FALSE, eval(lbls, line).value, NoWidth)>>
           [] OTHER -> <<ErrLine>>

\* a line of pass 2 whose eval raises
Pass2Raises(lbls, c) ==
    \E i \in 1..Len(c) : /\ c[i].k = "dep"
                         /\ c[i].op \in {"autopushltor0", "autoliteral"}
                         /\ ~eval(lbls, c[i]).ok

\* what pass 2 logs
Pass2Log(c) ==
    Flatten([i \in 1..Len(c) |->
        IF c[i].k = "dep" /\ c[i].op \notin {"autopushltor0", "autoliteral"}
        THEN <<"unknown dependant pseudo operation">> ELSE <<>>])


----------------------------------------------------------------------------
(* Compile-time stack (class Stack) *)

\* Stack.push1
push1(value, bit) == Shl(value, 1) \cup (IF bit = 1 THEN {0} ELSE {})

\* Stack.pop8: the byte returned and the value left
pop8(value) == [result |-> Bits2Nat(value \cap (0..7)), rest |-> Shr(value, 8)]

\* Stack.pop64: the 64-bit number returned and the value left
pop64(value) == [result |-> value \cap (0..63), rest |-> Shr(value, 64)]

----------------------------------------------------------------------------
(* Native backend: CPlusPlusGenerator.line.  A step of the emitted function *)
(* is kept as the instruction it came from; the step of pushl8 carries the  *)
(* byte the generator drained from the compile-time stack.                  *)

Step(op, arg) == [op |-> op, arg |-> arg]

RuntimeInstructions ==
    {"nand", "lshift", "push8s0", "pop8s0", "push8s1", "pop8s1", "push8s2", "pop8s2",
     "call", "print", "read", "exit", "ifz", "xchg03", "xchg13", "xchg23"}

CompileTimeInstructions == {"startfunc", "endfunc", "deflabel", "zero", "one", "pushl8"}

\* the effect of one instruction line on the generator: its compile-time
\* stack, the steps of the current function, and whether ParseError is raised
GenLine(value, line) ==
    CASE line.k = "ins" /\ line.op = "zero" ->
            [cts |-> push1(value, 0), steps |-> <<>>, raised |-> FALSE]
      [] line.k = "ins" /\ line.op = "one" ->
            [cts |-> push1(value, 1), steps |-> <<>>, raised |-> FALSE]
      [] line.k = "ins" /\ line.op = "pushl8" ->
            [cts |-> pop8(value).rest, steps |-> <<Step("s0.push", pop8(value).result)>>,
             raised |-> FALSE]
      [] line.k = "ins" /\ line.op = "deflabel" ->
            [cts |-> pop64(value).rest, steps |-> <<Step("label", pop64(value).result)>>,
             raised |-> FALSE]
      [] line.k = "ins" /\ line.op = "endfunc" ->
            [cts |-> pop64(value).rest, steps |-> <<>>, raised |-> FALSE]
      [] line.k = "ins" /\ line.op = "startfunc" ->
            [cts |-> value, steps |-> <<>>, raised |-> FALSE]
      [] line.k = "ins" /\ line.op \in RuntimeInstructions ->
            [cts |-> value, steps |-> <<Step(line.op, 0)>>, raised |-> FALSE]
      [] line.k = "comment" ->
            [cts |-> value, steps |-> <<>>, raised |-> FALSE]
      [] OTHER ->
            [cts |-> value, steps |-> <<>>, raised |-> TRUE]

----------------------------------------------------------------------------
(* The machine the emitted C++ runs on: std::uint64_t r0..r3 and            *)
(* std::stack<std::uint8_t> s0..s2.                                         *)

Word == 0..(RegWidth - 1)

LowByte(r) == Bits2Nat(r \cap (0..7))

\* rN ^= (rN & 0xff); rN |= byte;
SetLowByte(r, byte) == (r \ (0..7)) \cup Nat2Bits(byte)

\* the values "lshift" can leave in r2.  std::int8_t r1_8 = r1 & 0xff;
\* for r1_8 = -128 the negation gives -128 again and r0 >> -128 is undefined:
\* the hardware shifts by the count modulo 64, or the result is dropped.
lshift(r0, r1) ==
    LET a == LowByte(r1)
    IN IF a < 128
       THEN IF a >= 64 THEN {{}} ELSE {Shl(r0, a) \cap Word}
       ELSE IF 256 - a = 128 THEN {r0, {}}
            ELSE IF 256 - a >= 64 THEN {{}} ELSE {Shr(r0, 256 - a)}

\* bytes an out-of-bounds s.top() can read
UBBytes == {0, 8}

Swap(r, a, b) == [r EXCEPT ![a] = r[b], ![b] = r[a]]

Push(s, n, byte) == [s EXCEPT ![n] = Append(@, byte)]

Pop(s, n) == [s EXCEPT ![n] = SubSeq(@, 1, Len(@) - 1)]

Top(s, n) == s[n][Len(s[n])]

\* what std::cin.get() can return, converted to std::uint64_t: a byte of the
\* input, or EOF, which is the int -1 and converts to 2^64 - 1
CinGet == {Nat2Bits(b) : b \in 0..255} \cup {Word}

\* the states one step can lead to: [regs, stk, fault], fault = TRUE when the
\* step popped an empty stack and the process died of it
Exec(step, r, s) ==
    LET ok(r2, s2) == [regs |-> r2, stk |-> s2, fault |-> FALSE]
        popN(n) == IF s[n] # <<>>
                   THEN {ok([r EXCEPT ![n] = SetLowByte(@, Top(s, n))], Pop(s, n))}
                   ELSE {ok([r EXCEPT ![n] = SetLowByte(@, b)], s) : b \in UBBytes}
                        \cup {[regs |-> r, stk |-> s, fault |-> TRUE]}
    IN CASE step.op = "nand" -> {ok([r EXCEPT ![2] = Word \ (r[0] \cap r[1])], s)}
         [] step.op = "lshift" -> {ok([r EXCEPT ![2] = x], s) : x \in lshift(r[0], r[1])}
         [] step.op = "s0.push" -> {ok(r, Push(s, 0, step.arg))}
         [] step.op = "push8s0" -> {ok(r, Push(s, 0, LowByte(r[0])))}
         [] step.op = "push8s1" -> {ok(r, Push(s, 1, LowByte(r[1])))}
         [] step.op = "push8s2" -> {ok(r, Push(s, 2, LowByte(r[2])))}
         [] step.op = "pop8s0" -> popN(0)
         [] step.op = "pop8s1" -> popN(1)
         [] step.op = "pop8s2" -> popN(2)
         [] step.op = "read" ->
                {ok([r EXCEPT ![0] = @ \cup x], s) : x \in CinGet}
         [] step.op = "xchg03" -> {ok(Swap(r, 0, 3), s)}
         [] step.op = "xchg13" -> {ok(Swap(r, 1, 3), s)}
         [] step.op = "xchg23" -> {ok(Swap(r, 2, 3), s)}
         [] OTHER -> {ok(r, s)}


----------------------------------------------------------------------------
(* The passes of ExtensionResolver.resolve_all after macro expansion, the   *)
(* generator, and the run of the emitted steps, as actions.                 *)

\* resolve_pseudo_ops
ResolvePseudoOps ==
    /\ phase = "source"
    /\ LET st == Pass1Scan(funcs, Pass1Start(labels), code)
       IN /\ phase' = IF st.raised THEN "raised" ELSE "pass1"
          /\ code' = st.result
          /\ labels' = st.labels
          /\ log' = log \o st.log
    /\ UNCHANGED <<src, funcs, cur, cts, steps, ip, regs, stk, snap, macros, debug, depth,
                   b32, initial, funcinfo>>

\* resolve_dependant_pseudo_ops
ResolveDependantPseudoOps ==
    /\ phase = "pass1"
    /\ IF Pass2Raises(labels, code)
       THEN phase' = "raised" /\ UNCHANGED <<code, log>>
       ELSE /\ phase' = "pass2"
            /\ code' = Flatten([i \in 1..Len(code) |-> Pass2Line(labels, code[i])])
            /\ log' = log \o Pass2Log(code)
    /\ UNCHANGED <<src, funcs, labels, cur, cts, steps, ip, regs, stk, snap, macros, debug, depth,
                   b32, initial, funcinfo>>

\* resolve_funcref
ResolveFuncref ==
    /\ phase = "pass2"
    /\ IF funcref_raises(funcs, code)
       THEN phase' = "raised" /\ UNCHANGED code
       ELSE /\ phase' = "funcref"
            /\ code' = Flatten([i \in 1..Len(code) |-> resolve_funcref_line(funcs, code[i])])
    /\ UNCHANGED <<src, log, funcs, labels, cur, cts, steps, ip, regs, stk, snap, macros, debug, depth,
                   b32, initial, funcinfo>>

\* resolve_literal
ResolveLiteral ==
    /\ phase = "funcref"
    /\ phase' = "lowered"
    /\ code' = Flatten([i \in 1..Len(code) |-> resolve_literal_line(code[i])])
    /\ log' = log \o Flatten([i \in 1..Len(code) |-> resolve_literal_log(code[i])])
    /\ UNCHANGED <<src, funcs, labels, cur, cts, steps, ip, regs, stk, snap, macros, debug, depth,
                   b32, initial, funcinfo>>

\* CPlusPlusGenerator.line on the next line of the lowered code
TranslateLine ==
    /\ phase = "lowered"
    /\ IF ip > Len(code)
       THEN /\ phase' = IF steps = <<>> THEN "done" ELSE "run"
            /\ ip' = 1
            /\ UNCHANGED <<cts, steps>>
       ELSE LET g == GenLine(cts, code[ip])
            IN /\ phase' = IF g.raised THEN "parse_error" ELSE "lowered"
               /\ cts' = g.cts
               /\ steps' = steps \o g.steps
               /\ ip' = ip + 1
    /\ UNCHANGED <<src, code, log, funcs, labels, cur, regs, stk, snap, macros, debug, depth,
                   b32, initial, funcinfo>>

\* Function.__str__ writes the step __GOTO__ of ifz as a switch(r0) with one
\* case per label of the function: the step of the label whose id is r0, or
\* 0 when no label has that id and the default branch calls std::exit(1)
GotoTarget(ss, r0) ==
    IF \E j \in 1..Len(ss) : ss[j].op = "label" /\ ss[j].arg = r0
    THEN CHOOSE j \in 1..Len(ss) : ss[j].op = "label" /\ ss[j].arg = r0
    ELSE 0

\* the step that runs after step i: "if(r1 == 0){ __GOTO__ }" for ifz, the
\* next step for every other instruction
NextStep(ss, i, r) ==
    IF ss[i].op = "ifz" /\ r[1] = {} THEN GotoTarget(ss, r[0]) ELSE i + 1

\* one step of the emitted function
RunStep ==
    /\ phase = "run"
    /\ \E x \in Exec(steps[ip], regs, stk), t \in {NextStep(steps, ip, regs)} :
          /\ regs' = x.regs
          /\ stk' = x.stk
          /\ cur' = IF steps[ip].op = "call" THEN [cur EXCEPT !.callee = regs[0]] ELSE cur
          /\ phase' = CASE x.fault -> "fault"
                        [] steps[ip].op = "call" -> "called"
                        [] t = 0 -> "exit"
                        [] t > Len(steps) -> "done"
                        [] OTHER -> "run"
          /\ ip' = IF t = 0 THEN ip + 1 ELSE t
    /\ UNCHANGED <<src, code, log, funcs, labels, cts, steps, snap, macros, debug, depth,
                   b32, initial, funcinfo>>

----------------------------------------------------------------------------
(* Spec: one pseudo-op, \call f or \autopushltor0 v, lowered, generated and  *)
(* run from any register and byte-stack contents.                           *)

MaxDepth == 1

ByteSamples == {8, 200}

StackSamples == UNION {[1..n -> ByteSamples] : n \in 0..MaxDepth}

RegSamples == {{}, {0, 3, 8, 40}, Word}

\* ids of 3 bits, 8 bits, 13 bits, 64 bits and 65 bits, and id 0
FuncIds == {{}, {0, 2}, {7}, {2, 4, 5, 9, 12}, {1, 63}, {0, 64}}

\* 0, 5, 255, 256, 0x1234, 3 bytes, 8 bytes, 9 bytes
AutoValues == {{}, {0, 2}, 0..7, {8}, {2, 4, 5, 9, 12}, {1, 16}, {0, 63}, {3, 64}}

Call(name) == Line("pseudo", "call", name, -1, FALSE, {}, NoWidth)

AutoPush(v) == Line("pseudo", "autopushltor0", "", -1, FALSE, v, NoWidth)

NoCur == [callee |-> {}]

\* the function table and the source line: \call f for every id, \autopushltor0 v
Inputs ==
    {[funcs |-> ("f" :> FuncId(FALSE, id)), src |-> <<Call("f")>>] : id \in FuncIds}
    \cup {[funcs |-> ("f" :> FuncId(FALSE, {})), src |-> <<AutoPush(v)>>] : v \in AutoValues}

Init ==
    /\ phase = "source"
    /\ \E in \in Inputs : funcs = in.funcs /\ src = in.src
    /\ code = src
    /\ log = <<>>
    /\ labels = EmptyFn
    /\ cur = NoCur
    /\ cts = {}
    /\ steps = <<>>
    /\ ip = 1
    /\ \E a, b, c \in RegSamples : regs = (0 :> a) @@ (1 :> b) @@ (2 :> {1, 62}) @@ (3 :> c)
    /\ \E a \in StackSamples : stk = (0 :> a) @@ (1 :> <<7>>) @@ (2 :> <<>>)
    /\ snap = [regs |-> regs, stk |-> stk]
    /\ macros = EmptyFn
    /\ debug = FALSE
    /\ depth = 0
    /\ b32 = <<>>
    /\ initial = [i \in 0..2 |-> <<>>]
    /\ funcinfo = <<>>

Next ==
    \/ ResolvePseudoOps
    \/ ResolveDependantPseudoOps
    \/ ResolveFuncref
    \/ ResolveLiteral
    \/ TranslateLine
    \/ RunStep

Spec == Init /\ [][Next]_vars


----------------------------------------------------------------------------
(* Claims about \call and \autopushltor0 *)

IsCall == src[1].op = "call"

IsAutoPush == src[1].op = "autopushltor0"

\* the emitted function is about to execute its "call" step
AtCall == phase = "run" /\ IsCall /\ steps[ip].op = "call"

\* the emitted sequence of \autopushltor0 has run to its end
AutoPushDone == phase = "done" /\ IsAutoPush

\* C1: when the final call of the sequence \call name lowers to executes,
\* r0 equals the id of name, whatever the registers and stacks held before.
C1_R0IsIdAtCall == AtCall => regs[0] = funcs["f"].id

\* C2: when the final call of the sequence \call name lowers to executes,
\* all 64 bits of r1 equal the value r1 had before the first instruction.
C2_R1RestoredAtCall == AtCall => regs[1] = snap.regs[1]

C2_Witness ==
    /\ AtCall
    /\ BitLen(funcs["f"].id) >= 8
    /\ snap.regs[1] = {0, 3, 8, 40}
    /\ regs[1] = snap.regs[1]
    /\ snap.stk[0] = <<200>>

\* the bytes the steps push on s0, in order
RECURSIVE PushedBytes(_)
PushedBytes(ss) ==
    IF ss = <<>> THEN <<>>
    ELSE (IF Head(ss).op = "s0.push" THEN <<Head(ss).arg>> ELSE <<>>) \o PushedBytes(Tail(ss))

\* the number a big-endian byte sequence spells
FromBytes(b) == UNION {Shl(Nat2Bits(b[i]), 8 * (Len(b) - i)) : i \in 1..Len(b)}

\* the bytes of the value itself: those pushed after the shift count 8,
\* which is pushed first when there are two bytes or more
LoadedBytes == LET p == PushedBytes(steps) IN IF Len(p) >= 2 THEN Tail(p) ELSE p

\* C3: the sequence of %autopushltor0 v loads exactly the minimum big-endian
\* bytes of v, most significant first (one byte for 0), and leaves r0 = v.
C3_AutoPushLoadsValue ==
    AutoPushDone =>
        /\ FromBytes(LoadedBytes) = src[1].v
        /\ Len(LoadedBytes) = 1 \/ LoadedBytes[1] # 0
        /\ regs[0] = src[1].v

\* C4: r1 after the sequence of %autopushltor0 equals r1 before it.
C4_AutoPushKeepsR1 == AutoPushDone => regs[1] = snap.regs[1]

C4_Witness ==
    /\ AutoPushDone
    /\ BitLen(src[1].v) > 8
    /\ snap.regs[1] = {0, 3, 8, 40}
    /\ regs[1] = snap.regs[1]
    /\ snap.regs[3] = Word


----------------------------------------------------------------------------
(* SpecLit: one literal line ${v:w}, or \pushl8 n, through the same passes   *)
(* and the generator, from the registers and stacks of a fresh program.     *)

MaxLitValue == 260

MaxWidth == 9

Widths == {NoWidth} \cup (0..MaxWidth)

PushL8(n) == Line("pseudo", "pushl8", "", -1, n < 0, Nat2Bits(IF n < 0 THEN -n ELSE n), NoWidth)

LitInputs ==
    {<<Lit(FALSE, Nat2Bits(v), w)>> : v \in 0..MaxLitValue, w \in Widths}
    \cup {<<PushL8(n)>> : n \in (-128)..MaxLitValue}

InitLit ==
    /\ phase = "source"
    /\ funcs = EmptyFn
    /\ src \in LitInputs
    /\ code = src
    /\ log = <<>>
    /\ labels = EmptyFn
    /\ cur = NoCur
    /\ cts = {}
    /\ steps = <<>>
    /\ ip = 1
    /\ regs = [i \in 0..3 |-> {}]
    /\ stk = [i \in 0..2 |-> <<>>]
    /\ snap = [regs |-> regs, stk |-> stk]
    /\ macros = EmptyFn
    /\ debug = FALSE
    /\ depth = 0
    /\ b32 = <<>>
    /\ initial = [i \in 0..2 |-> <<>>]
    /\ funcinfo = <<>>

SpecLit == InitLit /\ [][Next]_vars

\* the signed number a line carries
NumberOf(line) == IF line.neg THEN 0 - Bits2Nat(line.v) ELSE Bits2Nat(line.v)

\* the bitwidth a literal line declares, the default when it declares none
WidthOf(line) == IF line.w = NoWidth THEN DefaultBitwidth ELSE line.w

IsLit == src[1].k = "lit"

IsPushL8 == src[1].k = "pseudo" /\ src[1].op = "pushl8"

\* the number a list of one/zero instructions spells, first instruction first
RECURSIVE Spelled(_, _)
Spelled(acc, c) ==
    IF c = <<>> THEN acc
    ELSE Spelled(2 * acc + (IF Head(c).op = "one" THEN 1 ELSE 0), Tail(c))

OnlyDigits(c) == \A i \in 1..Len(c) : c[i].k = "ins" /\ c[i].op \in {"one", "zero"}

\* v < 2^w
FitsWidth(line) == WidthOf(line) > 30 \/ NumberOf(line) < 2^WidthOf(line)

\* the unsigned binary digits of the literal, most significant first, nothing else
IsBinaryOf(c, line) ==
    /\ OnlyDigits(c)
    /\ Spelled(0, c) = NumberOf(line)
    /\ Len(c) = 1 \/ c[1].op = "one"

\* C7 as stated: every ${v:w} with 0 <= v < 2^w (w = 64 when absent) is
\* replaced by the unsigned binary digits of v, most significant first.
C7_LiteralIsBinary ==
    (phase = "lowered" /\ IsLit /\ FitsWidth(src[1])) => IsBinaryOf(code, src[1])

\* C7 amended: the same for every bitwidth w >= 1.
C7_LiteralIsBinaryPositiveWidth ==
    (phase = "lowered" /\ IsLit /\ FitsWidth(src[1]) /\ WidthOf(src[1]) >= 1)
        => IsBinaryOf(code, src[1])

C7_Witness ==
    /\ phase = "lowered" /\ IsLit
    /\ NumberOf(src[1]) = 255 /\ src[1].w = 8
    /\ Len(code) = 8 /\ \A i \in 1..8 : code[i] = Ins("one")

\* C8: for n in [-128, 127], the instructions of ${n:8} pushed on an empty
\* compile-time stack and drained by 8 bits give the byte whose signed 8-bit
\* reading is n.
C8_TwosComplementRoundTrip ==
    (phase \in {"run", "done"} /\ IsPushL8
     /\ NumberOf(src[1]) >= -128 /\ NumberOf(src[1]) <= 127)
        => /\ Len(steps) = 1
           /\ steps[1].op = "s0.push"
           /\ (IF steps[1].arg >= 128 THEN steps[1].arg - 256 ELSE steps[1].arg)
                 = NumberOf(src[1])
           /\ cts = {}

C8_Witness ==
    /\ phase = "done" /\ IsPushL8
    /\ NumberOf(src[1]) = -128
    /\ steps = <<Step("s0.push", 128)>>
    /\ stk[0] = <<128>>

\* the literal the source line puts in the code: itself, or ${n:8} of \pushl8 n
SourceLiteral == IF IsLit THEN src[1] ELSE Lit(src[1].neg, src[1].v, 8)

\* C9: a non-negative literal whose binary representation needs more bits
\* than its bitwidth gets no one/zero instruction, and the error is reported.
C9_OverflowIsError ==
    (phase \in {"lowered", "parse_error", "run", "done"}
     /\ ~SourceLiteral.neg
     /\ Len(Binary(SourceLiteral.v)) > WidthOf(SourceLiteral))
        => /\ \A i \in 1..Len(code) : ~(code[i].k = "ins" /\ code[i].op \in {"one", "zero"})
           /\ \E i \in 1..Len(code) : code[i] = ErrLine
           /\ log = <<"cannot be expressed">>

C9_Witness ==
    /\ phase = "lowered" /\ IsLit
    /\ NumberOf(src[1]) = 256 /\ src[1].w = 8
    /\ code = <<ErrLine>>
    /\ log # <<>>


----------------------------------------------------------------------------
(* SpecLabels: a program of two functions through passes 1 and 2.  A body   *)
(* is made of \autolabel lines, deferred references l{loop} and comments    *)
(* whose first word is startfunc or endfunc.                                *)

MaxBody == 3

MaxComments == 1

AutoLabel(name) == Line("pseudo", "autolabel", name, -1, FALSE, {}, NoWidth)

\* \autoliteral l{name}
AutoLiteralRef(name) == Line("pseudo", "autoliteral", name, -1, FALSE, {}, NoWidth)

Comment(word) == Line("comment", word, "", -1, FALSE, {}, NoWidth)

BodyLines ==
    {AutoLabel("loop"), AutoLabel("top"), AutoLiteralRef("loop"),
     Comment("startfunc"), Comment("endfunc")}

Bodies == UNION {[1..n -> BodyLines] : n \in 0..MaxBody}

NumComments(c) == Cardinality({i \in 1..Len(c) : c[i].k = "comment"})

Programs ==
    {<<Ins("startfunc")>> \o a \o <<Ins("endfunc"), Ins("startfunc")>> \o b \o <<Ins("endfunc")>> :
        <<a, b>> \in {x \in Bodies \X Bodies : NumComments(x[1]) + NumComments(x[2]) <= MaxComments}}

InitLabels ==
    /\ phase = "source"
    /\ funcs = EmptyFn
    /\ src \in Programs
    /\ code = src
    /\ log = <<>>
    /\ labels = EmptyFn
    /\ cur = NoCur
    /\ cts = {}
    /\ steps = <<>>
    /\ ip = 1
    /\ regs = [i \in 0..3 |-> {}]
    /\ stk = [i \in 0..2 |-> <<>>]
    /\ snap = [regs |-> regs, stk |-> stk]
    /\ macros = EmptyFn
    /\ debug = FALSE
    /\ depth = 0
    /\ b32 = <<>>
    /\ initial = [i \in 0..2 |-> <<>>]
    /\ funcinfo = <<>>

NextLabels == ResolvePseudoOps \/ ResolveDependantPseudoOps

SpecLabels == InitLabels /\ [][NextLabels]_vars

\* the function a source line belongs to: the number of endfunc instructions before it
FuncOf(i) == Cardinality({j \in 1..(i - 1) : src[j] = Ins("endfunc")})

\* the place in the output of pass 1 of the first line emitted for source line i
\* (\autolabel emits two lines, every other line of these programs one)
Pos(i) == i + Cardinality({j \in 1..(i - 1) : src[j].k = "pseudo" /\ src[j].op = "autolabel"})

LabelLines(f, name) == {i \in 1..Len(src) : src[i] = AutoLabel(name) /\ FuncOf(i) = f}

RefLines(f, name) == {i \in 1..Len(src) : src[i] = AutoLiteralRef(name) /\ FuncOf(i) = f}

\* the place of a label among the \autolabel lines of its function
Rank(i) == Cardinality({j \in 1..(i - 1) : src[j].k = "pseudo" /\ src[j].op = "autolabel"
                                           /\ FuncOf(j) = FuncOf(i)})

\* both functions define "loop" once, at different places, and refer to it
TwoLoops ==
    /\ \A f \in {0, 1} : Cardinality(LabelLines(f, "loop")) = 1
    /\ \E i \in LabelLines(0, "loop"), j \in LabelLines(1, "loop") : Rank(i) # Rank(j)
    /\ \A f \in {0, 1} : RefLines(f, "loop") # {}

\* C5: when two functions each define a label of the same name with
\* \autolabel, every deferred l{name} inside a function evaluates to the id
\* the \autolabel of that same function received.
C5_LabelsAreFunctionScoped ==
    (phase \in {"pass1", "pass2", "raised"} /\ TwoLoops) =>
        /\ phase # "raised"
        /\ phase = "pass2" =>
              \A f \in {0, 1} : \A i \in LabelLines(f, "loop") : \A r \in RefLines(f, "loop") :
                  code[Pos(r)] = Lit(FALSE, code[Pos(i)].v, NoWidth)

\* a program of SpecLabels without comments
NoComments == NumComments(src) = 0

\* the same for the programs that have no comment line
C5_HoldsWithoutComments == NoComments => C5_LabelsAreFunctionScoped


----------------------------------------------------------------------------
(* Stack-initializer codec.  A text is a sequence of one-character strings. *)

B32Alphabet ==
    <<"A", "B", "C", "D", "E", "F", "G", "H", "I", "J", "K", "L", "M", "N", "O", "P",
      "Q", "R", "S", "T", "U", "V", "W", "X", "Y", "Z", "2", "3", "4", "5", "6", "7">>

\* the eight bits of a byte, most significant first
ByteBits(byte) == [i \in 1..8 |-> (byte \div (2^(8 - i))) % 2]

RECURSIVE BitsValue(_, _)
\* the number a bit sequence spells, most significant bit first
BitsValue(acc, bits) ==
    IF bits = <<>> THEN acc ELSE BitsValue(2 * acc + Head(bits), Tail(bits))

\* b32encode(initial_values).decode("utf-8").rstrip("="): the bits of the
\* bytes, zero-filled to a multiple of 5, five bits per character
b32encode(bytes) ==
    LET bits == Flatten([i \in 1..Len(bytes) |-> ByteBits(bytes[i])])
        n == (Len(bits) + 4) \div 5
        padded == bits \o [i \in 1..(5 * n - Len(bits)) |-> 0]
    IN [i \in 1..n |-> B32Alphabet[1 + BitsValue(0, SubSeq(padded, 5 * i - 4, 5 * i))]]

RECURSIVE Octal(_)
\* f"{count:o}"
Octal(n) ==
    LET digit == <<"0", "1", "2", "3", "4", "5", "6", "7">>[(n % 8) + 1]
    IN IF n < 8 THEN <<digit>> ELSE Octal(n \div 8) \o <<digit>>

Repeat(char, n) == [i \in 1..n |-> char]

\* the longest run that is written out in full
RunThreshold == 6

RECURSIVE EncodeLoop(_, _, _, _)
\* the loop of _encode_stack_initializer over raw_result + "\0"
EncodeLoop(chars, prev_char, count, result) ==
    IF chars = <<>> THEN result
    ELSE LET char == Head(chars)
         IN IF char # prev_char
            THEN EncodeLoop(Tail(chars), char, 1,
                    IF prev_char # ""
                    THEN IF count > RunThreshold
                         THEN result \o <<prev_char, "\\", "S">> \o Octal(count) \o <<"\\", "E">>
                         ELSE result \o Repeat(prev_char, count)
                    ELSE result)
            ELSE EncodeLoop(Tail(chars), prev_char, count + 1, result)

\* str.translate(str.maketrans(from, to)) for two pairs of characters
Translate(text, f1, t1, f2, t2) ==
    [i \in 1..Len(text) |-> CASE text[i] = f1 -> t1 [] text[i] = f2 -> t2 [] OTHER -> text[i]]

\* MacroResolver._encode_stack_initializer
encode_stack_initializer(initial_values) ==
    Translate(EncodeLoop(b32encode(initial_values) \o <<"NUL">>, "", 0, <<>>),
              "0", "O", "1", "I")

\* the line the "stack" macro adds: \ + 'OI2'[stack_id] + the encoded bytes
StackToken(stack_id, values) ==
    <<"\\", <<"O", "I", "2">>[stack_id + 1]>> \o encode_stack_initializer(values)

RECURSIVE ParseOctal(_, _)
\* int(text, 8): -1 stands for ValueError
ParseOctal(acc, text) ==
    IF text = <<>> THEN acc
    ELSE IF Head(text) \notin {"0", "1", "2", "3", "4", "5", "6", "7"} THEN -1
         ELSE ParseOctal(8 * acc + (CHOOSE d \in 0..7 :
                    <<"0", "1", "2", "3", "4", "5", "6", "7">>[d + 1] = Head(text)), Tail(text))

RECURSIVE DecompressLoop(_, _)
\* the loop of _decompress_base32; st.raised when int() raises ValueError
DecompressLoop(chars, st) ==
    IF chars = <<>> \/ st.raised THEN st
    ELSE LET char == Head(chars)
             n == IF st.repeat = <<>> THEN -1
                  ELSE ParseOctal(0, Translate(st.repeat, "O", "0", "I", "1"))
             st1 ==
                IF char = "\\" THEN [st EXCEPT !.is_escaped = TRUE]
                ELSE IF st.is_escaped
                THEN IF char \in {"O", "I", "2"}
                     THEN [st EXCEPT !.result = @ \o <<"\\", char>>, !.is_escaped = FALSE]
                     ELSE IF char = "S"
                     THEN [st EXCEPT !.is_repeat = TRUE, !.is_escaped = FALSE]
                     ELSE IF char = "E"
                     THEN IF n = -1 THEN [st EXCEPT !.raised = TRUE]
                          ELSE [st EXCEPT !.is_repeat = FALSE,
                                          !.result = @ \o (IF st.prev_char = "" THEN <<>>
                                                           ELSE Repeat(st.prev_char, n - 1)),
                                          !.repeat = <<>>,
                                          !.is_escaped = FALSE]
                     ELSE [st EXCEPT !.result = @ \o <<"\\", char>>, !.is_escaped = FALSE]
                ELSE IF st.is_repeat THEN [st EXCEPT !.repeat = @ \o <<char>>]
                ELSE [st EXCEPT !.prev_char = char, !.result = @ \o <<char>>]
         IN DecompressLoop(Tail(chars), st1)

\* BasicGeneratorFromLan22._decompress_base32
decompress_base32(b32str) ==
    DecompressLoop(b32str, [result |-> <<>>, prev_char |-> "", is_escaped |-> FALSE,
                            is_repeat |-> FALSE, repeat |-> <<>>, raised |-> FALSE])

RECURSIVE Split(_, _, _)
\* str.split(sep): cur is the piece being collected
Split(text, sep, piece) ==
    IF text = <<>> THEN <<piece>>
    ELSE IF Head(text) = sep THEN <<piece>> \o Split(Tail(text), sep, <<>>)
         ELSE Split(Tail(text), sep, Append(piece, Head(text)))


\* the five bits of a base32 character
CharBits(char) ==
    LET v == (CHOOSE i \in 1..32 : B32Alphabet[i] = char) - 1
    IN [i \in 1..5 |-> (v \div (2^(5 - i))) % 2]

\* text.rstrip("=")
RECURSIVE RStripPad(_)
RStripPad(text) ==
    IF text # <<>> /\ text[Len(text)] = "=" THEN RStripPad(SubSeq(text, 1, Len(text) - 1))
    ELSE text

IsB32Char(char) == \E i \in 1..32 : B32Alphabet[i] = char

\* base64.b32decode as the decoder calls it; raised stands for binascii.Error
b32decode(text) ==
    LET s == RStripPad(text)
        padchars == Len(text) - Len(s)
        bits == Flatten([i \in 1..Len(s) |-> CharBits(s[i])])
        full == Len(s) \div 8
        quanta(i) == SubSeq(bits, 40 * i - 39, 40 * i)
        bytes5(q) == [j \in 1..5 |-> BitsValue(0, SubSeq(q, 8 * j - 7, 8 * j))]
        partial == SubSeq(bits, 40 * full + 1, Len(bits))
        last == bytes5(partial \o [j \in 1..(40 - Len(partial)) |-> 0])
        leftover == (43 - 5 * padchars) \div 8
    IN IF \/ Len(text) % 8 # 0
          \/ \E i \in 1..Len(s) : ~IsB32Char(s[i])
          \/ padchars \notin {0, 1, 3, 4, 6}
       THEN [raised |-> TRUE, bytes |-> <<>>]
       ELSE [raised |-> FALSE,
             bytes |-> Flatten([i \in 1..full |-> bytes5(quanta(i))])
                       \o (IF padchars # 0 /\ Len(s) > 0 THEN SubSeq(last, 1, leftover) ELSE <<>>)]

RECURSIVE DecodePieces(_, _)
\* the loop of _decode_stack_initializer over the pieces between backslashes
DecodePieces(pieces, st) ==
    IF pieces = <<>> \/ st.raised THEN st
    ELSE LET piece == Head(pieces)
             body == Tail(piece)
             d == b32decode(body \o Repeat("=", 8 - (Len(body) % 8)))
             stack_id == CHOOSE k \in 0..2 : <<"O", "I", "2">>[k + 1] = piece[1]
         IN IF Len(piece) < 2 THEN DecodePieces(Tail(pieces), st)
            ELSE IF piece[1] \notin {"O", "I", "2"} \/ d.raised
                 THEN [st EXCEPT !.raised = TRUE]
                 ELSE DecodePieces(Tail(pieces),
                        [st EXCEPT !.initial[stack_id] = @ \o d.bytes])

\* BasicGeneratorFromLan22._decode_stack_initializer
decode_stack_initializer(text, init) ==
    IF text = <<>> THEN [raised |-> TRUE, initial |-> init]
    ELSE LET tagged == IF text[1] # "\\" THEN <<"\\", "1">> \o text ELSE text
             d == decompress_base32(tagged)
         IN IF d.raised THEN [raised |-> TRUE, initial |-> init]
            ELSE DecodePieces(Split(d.result, "\\", <<>>), [raised |-> FALSE, initial |-> init])

----------------------------------------------------------------------------
(* Source text.  The macro pass works on the text of the lines: a text is  *)
(* a sequence of one-character strings.  The characters newline, carriage  *)
(* return, tab and NUL are written "LF", "CR", "TAB" and "NUL".             *)

LowerCase == <<"a", "b", "c", "d", "e", "f", "g", "h", "i", "j", "k", "l", "m", "n", "o", "p", "q", "r", "s", "t", "u", "v", "w", "x", "y", "z">>
UpperCase == <<"A", "B", "C", "D", "E", "F", "G", "H", "I", "J", "K", "L", "M", "N", "O", "P", "Q", "R", "S", "T", "U", "V", "W", "X", "Y", "Z">>
Digits == <<"0", "1", "2", "3", "4", "5", "6", "7", "8", "9">>

Range(f) == {f[i] : i \in DOMAIN f}

\* the character class [a-zA-Z0-9_]
WordChars == Range(LowerCase) \cup Range(UpperCase) \cup Range(Digits) \cup {"_"}

Take(text, n) == SubSeq(text, 1, n)

Drop(text, n) == SubSeq(text, n + 1, Len(text))

StartsWith(text, prefix) == Len(text) >= Len(prefix) /\ Take(text, Len(prefix)) = prefix

RECURSIVE Span(_, _)
\* how many leading characters of text belong to class
Span(text, class) ==
    IF text # <<>> /\ Head(text) \in class THEN 1 + Span(Tail(text), class) ELSE 0

RECURSIVE SpanUntil(_, _)
\* how many leading characters of text are outside stop
SpanUntil(text, stop) ==
    IF text # <<>> /\ Head(text) \notin stop THEN 1 + SpanUntil(Tail(text), stop) ELSE 0

RECURSIVE RStrip(_)
RStrip(text) ==
    IF text # <<>> /\ text[Len(text)] = " " THEN RStrip(Take(text, Len(text) - 1)) ELSE text

\* text.strip(" ")
Strip(text) == RStrip(Drop(text, Span(text, {" "})))

RECURSIVE Join(_, _)
\* sep.join(texts)
Join(texts, sep) ==
    IF texts = <<>> THEN <<>>
    ELSE IF Len(texts) = 1 THEN texts[1]
    ELSE texts[1] \o sep \o Join(Tail(texts), sep)

\* [piece.strip(" ") for piece in text.split(",")]
SplitStrip(text) ==
    LET StripAll(pieces) == [i \in 1..Len(pieces) |-> Strip(pieces[i])]
    IN StripAll(Split(text, ",", <<>>))

\* text.lower()
ToLower(text) ==
    [i \in 1..Len(text) |->
        IF text[i] \in Range(UpperCase)
        THEN LowerCase[CHOOSE k \in 1..26 : UpperCase[k] = text[i]]
        ELSE text[i]]

\* the value of a digit of a base up to 16, -1 for any other character
DigitOf(char) ==
    IF char \in Range(Digits) THEN (CHOOSE k \in 1..10 : Digits[k] = char) - 1
    ELSE IF char \in {"a", "b", "c", "d", "e", "f"}
    THEN 9 + (CHOOSE k \in 1..6 : LowerCase[k] = char)
    ELSE IF char \in {"A", "B", "C", "D", "E", "F"}
    THEN 9 + (CHOOSE k \in 1..6 : UpperCase[k] = char)
    ELSE -1

RECURSIVE DigitsValue(_, _, _)
\* the digits of a number in the given base, single underscores between them
\* allowed; -1 when the text is not such a number
DigitsValue(acc, text, base) ==
    IF text = <<>> THEN acc
    ELSE IF Head(text) = "_"
    THEN IF Len(text) >= 2 /\ Head(Tail(text)) # "_" THEN DigitsValue(acc, Tail(text), base)
         ELSE -1
    ELSE IF DigitOf(Head(text)) \in 0..(base - 1)
         THEN DigitsValue(acc * base + DigitOf(Head(text)), Tail(text), base)
         ELSE -1

\* int of the digits that follow the sign and the prefix; zero_rule: base 0
\* takes a decimal number with a leading zero only when it is zero
IntDigits(negative, digits, radix, zero_rule) ==
    LET Result(v) ==
            [ok |-> v >= 0 /\ ~(zero_rule /\ Len(digits) >= 2 /\ digits[1] = "0" /\ v > 0),
             value |-> IF negative THEN 0 - v ELSE v]
    IN Result(IF digits = <<>> \/ Head(digits) = "_" THEN -1
              ELSE DigitsValue(0, digits, radix))

\* int of the text that follows the sign: with base 0 a prefix 0x, 0o or 0b
\* selects the radix and may be followed by one underscore
IntBody(negative, body, base) ==
    IF base = 0 /\ Len(body) >= 2 /\ body[1] = "0"
       /\ body[2] \in {"x", "X", "o", "O", "b", "B"}
    THEN IntDigits(negative,
                   IF Len(body) >= 3 /\ body[3] = "_" THEN Drop(body, 3) ELSE Drop(body, 2),
                   IF body[2] \in {"x", "X"} THEN 16
                   ELSE IF body[2] \in {"o", "O"} THEN 8 ELSE 2,
                   FALSE)
    ELSE IntDigits(negative, body, 10, base = 0)

\* int(text, base) for base 0 or 10: ok is FALSE where Python raises ValueError
int(text, base) ==
    LET Signed(t) == IntBody(t # <<>> /\ Head(t) = "-",
                             IF t # <<>> /\ Head(t) \in {"+", "-"} THEN Tail(t) ELSE t,
                             base)
    IN Signed(Strip(text))

\* the optional group ( +(?P<g>X+))? at the head of rest, where X is any
\* character outside stop: the spaces are matched greedily and give one
\* space back to the group when nothing else is left for it
OptionalGroup(rest, stop) ==
    LET spaces == Span(rest, {" "})
        run == SpanUntil(rest, stop)
    IN IF spaces = 0 THEN <<>>
       ELSE IF run > spaces THEN SubSeq(rest, spaces + 1, run)
       ELSE IF spaces >= 2 THEN <<" ">>
       ELSE <<>>

\* the same search without the indentation: "^#" in place of "^(?P<indent> *)#"
MatchInvocation_no_indent(line) ==
    LET n == IF line # <<>> /\ Head(line) = "#" THEN Span(Tail(line), WordChars) ELSE 0
    IN [found |-> n > 0,
        indent |-> <<>>,
        name |-> SubSeq(line, 2, n + 1),
        args |-> IF n > 0 THEN OptionalGroup(Drop(line, n + 1), {";"}) ELSE <<>>]

\* re.search(r"^(?P<indent> *)#(?P<name>[a-zA-Z0-9_]+)( +(?P<args>[^;]+))?", line)
MatchInvocation(line) ==
    LET indent == Span(line, {" "})
        after == Drop(line, indent)
        n == IF after # <<>> /\ Head(after) = "#" THEN Span(Tail(after), WordChars) ELSE 0
    IN [found |-> n > 0,
        indent |-> Take(line, indent),
        name |-> SubSeq(after, 2, n + 1),
        args |-> IF n > 0 THEN OptionalGroup(Drop(after, n + 1), {";"}) ELSE <<>>]

\* re.search(r"^ *#defmacro (?P<name>[a-zA-Z0-9_]+)( +(?P<argdecl>.+))?", line)
MatchDefmacro(line) ==
    LET after == Drop(line, Span(line, {" "}))
        key == <<"#", "d", "e", "f", "m", "a", "c", "r", "o", " ">>
        n == IF StartsWith(after, key) THEN Span(Drop(after, Len(key)), WordChars) ELSE 0
    IN [found |-> n > 0,
        name |-> SubSeq(after, Len(key) + 1, Len(key) + n),
        argdecl |-> IF n > 0 THEN OptionalGroup(Drop(after, Len(key) + n), {}) ELSE <<>>]

\* re.search(r"^ *#endmacro", line)
MatchEndmacro(line) == StartsWith(Drop(line, Span(line, {" "})), <<"#", "e", "n", "d", "m", "a", "c", "r", "o">>)

\* an element of Macro.argnames: a position (from an integer argdecl) or a name
IntArg(i) == [int |-> TRUE, v |-> i, s |-> <<>>]

StrArg(name) == [int |-> FALSE, v |-> 0, s |-> name]

\* the argnames that retrieve_macros derives from an argdecl
ArgNames(argdecl) ==
    LET Names(names) == [i \in 1..Len(names) |-> StrArg(names[i])]
        Positions(n) == IF n.ok THEN [i \in 1..n.value |-> IntArg(i - 1)]
                        ELSE Names(SplitStrip(argdecl))
    IN IF argdecl = <<>> THEN <<>> ELSE Positions(int(argdecl, 10))

\* Macro(argnames): a macro with no code yet
Macro(argnames) == [argnames |-> argnames, code |-> <<>>]

\* dict | dict: the entries of b win
Merge(a, b) ==
    [k \in DOMAIN a \cup DOMAIN b |-> IF k \in DOMAIN b THEN b[k] ELSE a[k]]

\* the body of the loop of retrieve_macros for one line, match being the
\* result of the search for "#defmacro"; current_macro_name is <<>> for None
RetrieveLine(st, line, match) ==
    IF match.found
    THEN [st EXCEPT !.current_macro_name = match.name,
                    !.macros = Merge(@, [k \in {match.name} |-> Macro(ArgNames(match.argdecl))])]
    ELSE IF MatchEndmacro(line)
    THEN [st EXCEPT !.current_macro_name = <<>>]
    ELSE IF st.current_macro_name # <<>>
    THEN [st EXCEPT !.macros[st.current_macro_name].code = Append(@, line)]
    ELSE [st EXCEPT !.code = Append(@, line)]

RECURSIVE RetrieveLoop(_, _)
\* the loop of retrieve_macros
RetrieveLoop(lines, st) ==
    IF lines = <<>> THEN st
    ELSE RetrieveLoop(Tail(lines), RetrieveLine(st, Head(lines), MatchDefmacro(Head(lines))))

\* retrieve_macros
retrieve_macros(lines) ==
    RetrieveLoop(lines, [current_macro_name |-> <<>>, macros |-> EmptyFn, code |-> <<>>])


RECURSIVE FindPlaceholders_first(_)
\* the same search stopping at the first placeholder
FindPlaceholders_first(text) ==
    IF text = <<>> THEN <<>>
    ELSE LET n == IF StartsWith(text, <<"#", "{">>) THEN SpanUntil(Drop(text, 2), {"}"}) ELSE 0
         IN IF n > 0 /\ Len(text) >= n + 3
            THEN <<SubSeq(text, 3, n + 2)>>
            ELSE FindPlaceholders_first(Tail(text))

RECURSIVE FindPlaceholders(_)
\* re.findall(r"#{(?P<name>[^}]+)}", macro_line)
FindPlaceholders(text) ==
    IF text = <<>> THEN <<>>
    ELSE LET n == IF StartsWith(text, <<"#", "{">>) THEN SpanUntil(Drop(text, 2), {"}"}) ELSE 0
         IN IF n > 0 /\ Len(text) >= n + 3
            THEN <<SubSeq(text, 3, n + 2)>> \o FindPlaceholders(Drop(text, n + 3))
            ELSE FindPlaceholders(Tail(text))

\* whether the pattern, in which "." stands for any character, matches at the head of text
MatchesAt(text, pattern) ==
    /\ Len(text) >= Len(pattern)
    /\ \A i \in 1..Len(pattern) : pattern[i] = "." \/ pattern[i] = text[i]

RECURSIVE SubLoop(_, _, _)
\* re.sub of a pattern that matches Len(pattern) >= 1 characters
SubLoop(text, pattern, repl) ==
    IF text = <<>> THEN <<>>
    ELSE IF MatchesAt(text, pattern) THEN repl \o SubLoop(Drop(text, Len(pattern)), pattern, repl)
    ELSE <<Head(text)>> \o SubLoop(Tail(text), pattern, repl)

\* re.sub(f"#{{{arg_placeholder}}}", repl, text), for a repl without
\* backslashes (they are escapes of the replacement).  The pattern is a regular
\* expression: for a placeholder made of digits, {N} is a repetition count
\* on "#", so the pattern matches N characters "#" (the empty text for N = 0,
\* which is found before every character and at the end); for any other
\* placeholder of word characters and dots the braces are literal.
re_sub(arg_placeholder, repl, text) ==
    LET count == DigitsValue(0, arg_placeholder, 10)
    IN IF \A i \in 1..Len(arg_placeholder) : arg_placeholder[i] \in Range(Digits)
       THEN IF count = 0
            THEN Flatten([i \in 1..Len(text) |-> repl \o <<text[i]>>]) \o repl
            ELSE SubLoop(text, Repeat("#", count), repl)
       ELSE SubLoop(text, <<"#", "{">> \o arg_placeholder \o <<"}">>, repl)

\* list.index(value): 0 when the value is absent (ValueError)
IndexOf(list, value) ==
    IF \E i \in 1..Len(list) : list[i] = value
    THEN CHOOSE i \in 1..Len(list) : list[i] = value /\ \A j \in 1..(i - 1) : list[j] # value
    ELSE 0

VA_ARGS == <<"_", "_", "V", "A", "_", "A", "R", "G", "S", "_", "_">>

Ellipsis == <<".", ".", ".">>

RECURSIVE SubstituteLoop(_, _, _, _)
\* the loop over the placeholders of one macro line; raised stands for the
\* ValueError of list.index and the IndexError of args[...]
SubstituteLoop(placeholders, argnames, args, st) ==
    IF placeholders = <<>> \/ st.raised THEN st
    ELSE LET arg_placeholder == Head(placeholders)
             va == IndexOf(argnames, StrArg(Ellipsis))
             at == IndexOf(argnames, StrArg(arg_placeholder))
         IN IF arg_placeholder = VA_ARGS
            THEN IF va = 0 THEN [st EXCEPT !.raised = TRUE]
                 ELSE SubstituteLoop(Tail(placeholders), argnames, args,
                        [st EXCEPT !.line = re_sub(arg_placeholder,
                                                   Join(Drop(args, va - 1), <<",">>), @)])
            ELSE IF at = 0 \/ at > Len(args) THEN [st EXCEPT !.raised = TRUE]
                 ELSE SubstituteLoop(Tail(placeholders), argnames, args,
                        [st EXCEPT !.line = re_sub(arg_placeholder, args[at], @)])

\* one line of a macro's code with its placeholders replaced
SubstituteLine(macro, args, macro_line) ==
    SubstituteLoop(FindPlaceholders(macro_line), macro.argnames, args,
                   [raised |-> FALSE, line |-> macro_line])

\* the characters with code 32 to 126, in order ("GRAVE" is the grave accent)
Ascii ==
    <<" ", "!", "\"", "#", "$", "%", "&", "'", "(", ")", "*", "+", ",", "-", ".", "/">>
      \o <<"0", "1", "2", "3", "4", "5", "6", "7", "8", "9", ":", ";", "<", "=", ">", "?">>
      \o <<"@", "A", "B", "C", "D", "E", "F", "G", "H", "I", "J", "K", "L", "M", "N", "O">>
      \o <<"P", "Q", "R", "S", "T", "U", "V", "W", "X", "Y", "Z", "[", "\\", "]", "^", "_">>
      \o <<"GRAVE", "a", "b", "c", "d", "e", "f", "g", "h", "i", "j", "k", "l", "m", "n", "o">>
      \o <<"p", "q", "r", "s", "t", "u", "v", "w", "x", "y", "z", "{", "|", "}", "~">>

\* the code of a character
Ord(char) ==
    CASE char = "NUL" -> 0 [] char = "TAB" -> 9 [] char = "LF" -> 10 [] char = "CR" -> 13
      [] OTHER -> 31 + CHOOSE k \in 1..Len(Ascii) : Ascii[k] = char

RECURSIVE UnescapeOne(_, _, _, _)
\* re.sub(r"(?<!\\)" + pattern, out, source); prev is the character before text
UnescapeOne(text, prev, pattern, out) ==
    IF text = <<>> THEN <<>>
    ELSE IF prev # "\\" /\ StartsWith(text, pattern)
    THEN <<out>> \o UnescapeOne(Drop(text, 2), text[2], pattern, out)
    ELSE <<Head(text)>> \o UnescapeOne(Tail(text), Head(text), pattern, out)

\* unescape
unescape(source) ==
    LET n == UnescapeOne(source, "", <<"\\", "n">>, "LF")
        r == UnescapeOne(n, "", <<"\\", "r">>, "CR")
        t == UnescapeOne(r, "", <<"\\", "t">>, "TAB")
        z == UnescapeOne(t, "", <<"\\", "0">>, "NUL")
    IN UnescapeOne(z, "", <<"\\", "\\">>, "\\")

RECURSIVE SearchValueRepeat(_)
\* re.search(r"(?P<value>\d+):(?P<repeat>\d+)", raw_value)
SearchValueRepeat(text) ==
    IF text = <<>> THEN [found |-> FALSE, value |-> <<>>, repeat |-> <<>>]
    ELSE LET d == Span(text, Range(Digits))
             r == IF d > 0 /\ Len(text) > d /\ text[d + 1] = ":"
                  THEN Span(Drop(text, d + 1), Range(Digits)) ELSE 0
         IN IF r > 0
            THEN [found |-> TRUE, value |-> Take(text, d), repeat |-> SubSeq(text, d + 2, d + 1 + r)]
            ELSE SearchValueRepeat(Tail(text))

\* value.to_bytes(length, byteorder); ok is FALSE for OverflowError and ValueError
to_bytes(value, length, byteorder) ==
    LET big == [i \in 1..length |->
                  IF length - i >= 4 THEN 0 ELSE (value \div (256 ^ (length - i))) % 256]
    IN IF length < 0 \/ value < 0 \/ (length < 4 /\ value >= 256 ^ length)
       THEN [ok |-> FALSE, bytes |-> <<>>]
       ELSE [ok |-> TRUE,
             bytes |-> IF byteorder = <<"l", "i", "t", "t", "l", "e">> THEN [i \in 1..length |-> big[length + 1 - i]]
                       ELSE big]

\* the end of one round of the "intarray" loop: value and repeat are the
\* results of int, bytes the result of to_bytes
IntArrayBytes(st, value, repeat, bytes) ==
    IF ~value.ok \/ ~repeat.ok \/ ~bytes.ok THEN [st EXCEPT !.raised = TRUE]
    ELSE [st EXCEPT !.values = @ \o Flatten([i \in 1..repeat.value |-> bytes.bytes])]

\* one round of the "intarray" loop, lines 124 to 131
IntArrayValue(st, raw_value, value_match, alignment, byteorder) ==
    LET Parsed(value, repeat) ==
            IntArrayBytes(st, value, repeat, to_bytes(value.value, alignment \div 8, byteorder))
    IN Parsed(int(IF value_match.found THEN value_match.value ELSE raw_value, 0),
              IF value_match.found THEN int(value_match.repeat, 0)
              ELSE [ok |-> TRUE, value |-> 1])

RECURSIVE IntArrayLoop(_, _, _, _)
\* the loop of the "intarray" case over args[4:]
IntArrayLoop(raw_values, alignment, byteorder, st) ==
    IF raw_values = <<>> \/ st.raised THEN st
    ELSE IntArrayLoop(Tail(raw_values), alignment, byteorder,
            IntArrayValue(st, Head(raw_values), SearchValueRepeat(Head(raw_values)),
                          alignment, byteorder))

\* the result of a case that raises: an IndexError, ValueError, KeyError or
\* OverflowError
CaseRaised == [raised |-> TRUE, skipped |-> FALSE, unknown |-> FALSE, lines |-> <<>>, log |-> <<>>]

\* the bytes that a value type has produced
StackValues(values) ==
    [raised |-> FALSE, skipped |-> FALSE, unknown |-> FALSE, values |-> values]

\* the "raw" case, line 108; raw holds the results of int
RawCase(raw) ==
    IF \E i \in 1..Len(raw) : ~raw[i].ok \/ raw[i].value \notin 0..255
    THEN [StackValues(<<>>) EXCEPT !.raised = TRUE]
    ELSE StackValues([i \in 1..Len(raw) |-> raw[i].value])

\* the "cstr" case, line 110; text is the unescaped text
CstrCase(text) == StackValues([i \in 1..Len(text) |-> Ord(text[i])] \o <<0>>)

\* the "intarray" case, lines 112 to 131; skipped stands for the "continue"
IntArrayCase(args, alignment, byteorder) ==
    LET Values(ints) == IF ints.raised THEN [StackValues(<<>>) EXCEPT !.raised = TRUE]
                        ELSE StackValues(ints.values)
    IN IF ~alignment.ok THEN [StackValues(<<>>) EXCEPT !.raised = TRUE]
       ELSE IF byteorder \notin {<<"l", "i", "t", "t", "l", "e">>, <<"b", "i", "g">>}
       THEN [StackValues(<<>>) EXCEPT !.skipped = TRUE]
       ELSE Values(IntArrayLoop(Drop(args, 4), alignment.value, byteorder,
                                [raised |-> FALSE, values |-> <<>>]))

\* the match on value_type, lines 104 to 134, for at least two arguments
ValueTypeCase(args) ==
    IF args[2] = <<"r", "a", "w">>
    THEN RawCase([i \in 1..(Len(args) - 2) |-> int(args[i + 2], 0)])
    ELSE IF args[2] = <<"c", "s", "t", "r">>
    THEN CstrCase(unescape(Join(Drop(args, 2), <<",">>)))
    ELSE IF args[2] = <<"i", "n", "t", "a", "r", "r", "a", "y">>
    THEN IF Len(args) < 4 THEN [StackValues(<<>>) EXCEPT !.raised = TRUE]
         ELSE IntArrayCase(args, int(args[3], 10), ToLower(args[4]))
    ELSE [StackValues(<<>>) EXCEPT !.unknown = TRUE]

\* the lines that the "stack" case adds, lines 119 to 121 and 133 to 137:
\* stack_id is the result of int, v the result of the match on value_type
StackLines(line, indent, stack_id, v) ==
    LET error_line == <<"!", "!", "!", "!", "!", "!", "!", "e", "r", "r", "o", "r", "!", "!", "!", "!", "!", "!", "!", " ">> \o line
    IN IF ~stack_id.ok \/ v.raised THEN CaseRaised
       ELSE IF v.skipped
       THEN [CaseRaised EXCEPT !.raised = FALSE, !.skipped = TRUE, !.lines = <<error_line>>,
                               !.log = <<"unknown byteorder">>]
       ELSE IF stack_id.value \notin (-3)..2 THEN CaseRaised
       ELSE [CaseRaised EXCEPT
               !.raised = FALSE,
               !.unknown = v.unknown,
               !.lines = (IF v.unknown THEN <<error_line>> ELSE <<>>)
                         \o <<indent \o <<"\\", <<"O", "I", "2">>[(stack_id.value % 3) + 1]>>
                                     \o encode_stack_initializer(v.values)>>,
               !.log = IF v.unknown THEN <<"unknown value type">> ELSE <<>>]

\* the "stack" case of _expand_macro_recursive, lines 103 to 137
StackCase(line, indent, args) ==
    IF Len(args) < 2 THEN CaseRaised
    ELSE StackLines(line, indent, int(args[1], 10), ValueTypeCase(args))

\* the macro case adding no line
MacroLines_no_body(body) == [CaseRaised EXCEPT !.raised = FALSE]

\* the end of the macro case: body holds the substituted lines
MacroLines(body) ==
    IF \E i \in 1..Len(body) : body[i].raised THEN CaseRaised
    ELSE [CaseRaised EXCEPT !.raised = FALSE, !.lines = [i \in 1..Len(body) |-> body[i].line]]

\* the macro case of _expand_macro_recursive, lines 139 to 150
MacroCase(table, name, args) ==
    IF name \notin DOMAIN table THEN CaseRaised
    ELSE MacroLines([i \in 1..Len(table[name].code) |->
                        SubstituteLine(table[name], args, table[name].code[i])])

\* the lines of one invocation: those of its case between the lines that
\* --debug adds, lines 97 to 100 and 151 to 154
InvocationLines(dbg, line, indent, case) ==
    IF case.raised THEN [raised |-> TRUE, found |-> TRUE, lines |-> <<>>, log |-> <<>>]
    ELSE [raised |-> FALSE, found |-> TRUE,
          lines |-> (IF dbg THEN <<indent \o <<";", "d", "e", "b", "u", "g", ":", " ">> \o line>> ELSE <<>>)
                    \o case.lines
                    \o (IF dbg /\ ~case.skipped
                        THEN <<indent \o <<";", "d", "e", "b", "u", "g", ":", " ", "e", "n", "d", " ", "m", "a", "c", "r", "o">>>>
                        ELSE <<>>),
          log |-> case.log]

\* the match on the name of the macro, lines 101 to 150
NameCase(table, line, indent, name, args) ==
    IF name = <<"s", "t", "a", "c", "k">> THEN StackCase(line, indent, args)
    ELSE MacroCase(table, name, args)

\* the loop body for a line and the result of the search for an invocation
ExpandMatch(table, dbg, line, match) ==
    IF ~match.found
    THEN [raised |-> FALSE, found |-> FALSE, lines |-> <<line>>, log |-> <<>>]
    ELSE InvocationLines(dbg, line, match.indent,
                         NameCase(table, line, match.indent, match.name,
                                  IF match.args # <<>> THEN SplitStrip(match.args) ELSE <<>>))

\* the loop body of _expand_macro_recursive for one line: found is what the
\* line contributes to macro_found
ExpandLine(table, dbg, line) == ExpandMatch(table, dbg, line, MatchInvocation(line))

\* the depth of calls at which CPython raises RecursionError, scaled down
RecursionLimit == 6

\* the loop of _expand_macro_recursive over the lines of code
ExpandLoop(table, dbg, lines) ==
    LET Result(r, raising) ==
            [raised |-> raising # {},
             macro_found |-> \E i \in 1..Len(lines) : r[i].found,
             result |-> IF raising # {} THEN <<>>
                        ELSE Flatten([i \in 1..Len(lines) |-> r[i].lines]),
             log |-> Flatten([i \in 1..(IF raising = {} THEN Len(lines) ELSE MinOf(raising) - 1)
                                |-> r[i].log])]
        Lines(r) == Result(r, {i \in 1..Len(lines) : r[i].raised})
    IN Lines([i \in 1..Len(lines) |-> ExpandLine(table, dbg, lines[i])])

\* ExtensionResolver.resolve_macro up to the call of expand_macro
RetrieveMacros ==
    /\ phase = "source"
    /\ \E r \in {retrieve_macros(src)} :
          /\ macros' = Merge(macros, r.macros)
          /\ code' = r.code
    /\ phase' = "macro"
    /\ depth' = 1
    /\ UNCHANGED <<src, log, funcs, labels, cur, cts, steps, ip, regs, stk, snap, debug,
                   b32, initial, funcinfo>>

\* one call of MacroResolver._expand_macro_recursive: the loop over the
\* lines, then the return of the result through all callers or the next call
ExpandMacroRecursive ==
    /\ phase = "macro"
    /\ \E r \in {ExpandLoop(macros, debug, code)} :
          /\ log' = log \o r.log
          /\ phase' = IF r.raised THEN "raised"
                      ELSE IF ~r.macro_found THEN "expanded"
                      ELSE IF depth >= RecursionLimit THEN "recursion_error"
                      ELSE "macro"
          /\ code' = IF r.raised \/ (r.macro_found /\ depth >= RecursionLimit) THEN code
                     ELSE r.result
          /\ depth' = IF ~r.raised /\ r.macro_found /\ depth < RecursionLimit THEN depth + 1
                      ELSE depth
    /\ UNCHANGED <<src, funcs, labels, cur, cts, steps, ip, regs, stk, snap, macros, debug,
                   b32, initial, funcinfo>>

----------------------------------------------------------------------------
(* SpecB32: a source of one line "#stack k,raw,b1,...,bn" goes through the  *)
(* macro pass, the generator collects the token and decodes it.             *)

MaxBytes == 5

\* byte values whose base32 text has runs of A, and the characters 7, O and 2
CodecBytes == {0, 31, 115, 214}

ByteSeqs == UNION {[1..n -> CodecBytes] : n \in 0..MaxBytes}

RECURSIVE Decimal(_)
\* str(n) of a natural number
Decimal(n) == IF n < 10 THEN <<Digits[n + 1]>> ELSE Decimal(n \div 10) \o <<Digits[(n % 10) + 1]>>

\* the source line that initializes stack k with the given bytes
StackLine(k, values) ==
    <<"#", "s", "t", "a", "c", "k", " ">> \o Decimal(k) \o <<",", "r", "a", "w">>
        \o Flatten([i \in 1..Len(values) |-> <<",">> \o Decimal(values[i])])

\* BasicGeneratorFromLan22.BASE32, called for every token of the expanded code
BASE32 ==
    /\ phase = "expanded"
    /\ phase' = "token"
    /\ b32' = b32 \o Flatten(SelectSeq(code, LAMBDA line : line # <<>> /\ Head(line) = "\\"))
    /\ UNCHANGED <<src, code, log, funcs, labels, cur, cts, steps, ip, regs, stk, snap,
                   macros, debug, depth, initial, funcinfo>>

\* BasicGeneratorFromLan22._decode_stack_initializer
DecodeStackInitializer ==
    /\ phase = "token"
    /\ \E d \in {decode_stack_initializer(b32, initial)} :
          /\ phase' = IF d.raised THEN "raised" ELSE "decoded"
          /\ initial' = d.initial
    /\ UNCHANGED <<src, code, log, funcs, labels, cur, cts, steps, ip, regs, stk, snap,
                   macros, debug, depth, b32, funcinfo>>

InitB32 ==
    /\ phase = "source"
    /\ funcs = EmptyFn
    /\ \E k \in 0..2, bytes \in ByteSeqs : src = <<StackLine(k, bytes)>>
    /\ code = <<>>
    /\ log = <<>>
    /\ labels = EmptyFn
    /\ cur = NoCur
    /\ cts = {}
    /\ steps = <<>>
    /\ ip = 1
    /\ regs = [i \in 0..3 |-> {}]
    /\ stk = [i \in 0..2 |-> <<>>]
    /\ snap = [regs |-> regs, stk |-> stk]
    /\ macros = EmptyFn
    /\ debug = FALSE
    /\ depth = 0
    /\ b32 = <<>>
    /\ initial = [i \in 0..2 |-> <<>>]
    /\ funcinfo = <<>>

NextB32 == RetrieveMacros \/ ExpandMacroRecursive \/ BASE32 \/ DecodeStackInitializer

SpecB32 == InitB32 /\ [][NextB32]_vars

\* the arguments of the source line
SourceArgs == SplitStrip(MatchInvocation(src[1]).args)

SourceStackId == int(SourceArgs[1], 10).value

SourceBytes == [i \in 1..(Len(SourceArgs) - 2) |-> int(SourceArgs[i + 2], 0).value]

\* C6: encoding any byte sequence as the initializer of stack k and decoding
\* the token gives back exactly those bytes as the initial content of stack
\* k and leaves the other two stacks empty.
C6_CodecRoundTrip ==
    phase \in {"decoded", "raised"} =>
        /\ phase = "decoded"
        /\ initial = [i \in 0..2 |-> IF i = SourceStackId THEN SourceBytes ELSE <<>>]

\* the round trip for the lengths that are not a positive multiple of 5
C6_RoundTripOtherLengths ==
    (Len(SourceBytes) % 5 # 0 \/ SourceBytes = <<>>) => C6_CodecRoundTrip

\* the token of five zero bytes for stack 0 is \OA\SIO\E
C6_EncodesRuns ==
    (phase = "token" /\ SourceBytes = <<0, 0, 0, 0, 0>> /\ SourceStackId = 0)
        => b32 = <<"\\", "O", "A", "\\", "S", "I", "O", "\\", "E">>


----------------------------------------------------------------------------
(* SpecMacro: the macro pass on sources that define a macro a with one      *)
(* parameter x and a macro b without parameters, followed by one line of    *)
(* code.                                                                    *)

MaxMacroBody == 2

NameA == <<"a">>

NameB == <<"b">>

\* the lines a body of a is made of: an instruction, an invocation of b, an
\* indented one, an invocation of a macro nobody defines, and a line made
\* of the parameter only
CodeOfA == {<<"n", "a", "n", "d">>, <<"#", "b">>, <<" ", " ", "#", "b">>, <<"#", "z", "z">>, <<"#", "{", "x", "}", " ", "#", "{", "x", "}">>}

\* the lines the body of b is taken from
CodeOfB == {<<"n", "a", "n", "d">>, <<"#", "a", " ", "z">>, <<"#", "b">>}

\* the line of code after the definitions
CodeLines == {<<"#", "a", " ", "#", "a">>, <<"#", "a", " ", "z">>, <<"#", "b">>, <<" ", "#", "a", " ", "n", "a", "n", "d", " ", ";", "c">>}

Defmacro(name, argdecl, body) ==
    <<<<"#", "d", "e", "f", "m", "a", "c", "r", "o", " ">> \o name \o argdecl>> \o body \o <<<<"#", "e", "n", "d", "m", "a", "c", "r", "o">>>>

MacroSources ==
    {Defmacro(NameA, <<" ", "x">>, a) \o Defmacro(NameB, <<>>, b) \o <<c>> :
        a \in UNION {[1..n -> CodeOfA] : n \in 0..MaxMacroBody},
        b \in UNION {[1..n -> CodeOfB] : n \in 0..1},
        c \in CodeLines}

InitMacro ==
    /\ phase = "source"
    /\ funcs = EmptyFn
    /\ src \in MacroSources
    /\ code = <<>>
    /\ log = <<>>
    /\ labels = EmptyFn
    /\ cur = NoCur
    /\ cts = {}
    /\ steps = <<>>
    /\ ip = 1
    /\ regs = [i \in 0..3 |-> {}]
    /\ stk = [i \in 0..2 |-> <<>>]
    /\ snap = [regs |-> regs, stk |-> stk]
    /\ macros = EmptyFn
    /\ debug \in BOOLEAN
    /\ depth = 0
    /\ b32 = <<>>
    /\ initial = [i \in 0..2 |-> <<>>]
    /\ funcinfo = <<>>

NextMacro == RetrieveMacros \/ ExpandMacroRecursive

SpecMacro == InitMacro /\ [][NextMacro]_vars

\* the macro pass has a next step exactly in these phases
Running == phase \in {"source", "macro"}

\* a step of the macro pass as phase and depth show it: every step of
\* NextMacro changes one of the two, and nothing else does
Advance ==
    /\ Running
    /\ phase' \in {"macro", "expanded", "raised", "recursion_error"}
    /\ depth' \in {depth, depth + 1}

\* the resolver is a sequential program: it takes its next step whenever it has one
SpecMacroFair == SpecMacro /\ WF_<<phase, depth>>(Advance)

\* a line that is a #name invocation: a "#" and a word after the indentation
IsInvocation(line) ==
    LET text == Drop(line, Span(line, {" "}))
    IN Len(text) >= 2 /\ text[1] = "#" /\ text[2] \in WordChars

\* the arguments with which the invocation graph is drawn
ArgSamples == {<<>>, <<"z">>, <<"n", "a", "n", "d">>, NameA, NameB, <<"#">> \o NameA, <<"#">> \o NameB}

\* an edge of the invocation graph: some invocation of m expands to a line
\* that invokes n
Invokes(table, m, n) ==
    \E arg \in ArgSamples :
        LET r == ExpandLine(table, FALSE, <<"#">> \o m \o <<" ">> \o arg)
        IN /\ ~r.raised
           /\ \E i \in 1..Len(r.lines) :
                 IsInvocation(r.lines[i]) /\ MatchInvocation(r.lines[i]).name = n

RECURSIVE Reaches(_, _, _, _)
\* a path of at least one and at most k edges from m to n
Reaches(table, m, n, k) ==
    /\ k > 0
    /\ \/ Invokes(table, m, n)
       \/ \E via \in DOMAIN table : Invokes(table, m, via) /\ Reaches(table, via, n, k - 1)

Cyclic(table) == \E m \in DOMAIN table : Reaches(table, m, m, Cardinality(DOMAIN table))

Expanding == phase = "macro" /\ ~Cyclic(macros)

Terminated == phase \in {"expanded", "raised"}

NoInvocationLeft == phase = "expanded" => \A i \in 1..Len(code) : ~IsInvocation(code[i])

----------------------------------------------------------------------------
(* SpecArgs: the macro pass on a source that defines one macro m, with a    *)
(* variadic parameter list or with an integer argdecl, whose body is one    *)
(* line of words and placeholders, followed by one invocation of m.         *)

MaxPieces == 2

MaxTrailing == 3

MaxPositional == 2

NameM == <<"m">>

\* the arguments of the invocation are the first ones of this list
ArgPool == <<<<"a">>, <<"b", "2">>, <<"c">>, <<"d", "_">>, <<"e">>, <<"f", "9">>, <<"g">>>>

ParamX == <<"x">>

ParamY == <<"y", "1">>

\* #{name}
Placeholder(name) == <<"#", "{">> \o name \o <<"}">>

\* the parameter lists that end with "..."
VariadicParams == {<<Ellipsis>>, <<ParamX, Ellipsis>>, <<ParamX, ParamY, Ellipsis>>}

\* texts joined with a separator, as the source is written
RECURSIVE Separated(_, _)
Separated(texts, sep) ==
    IF texts = <<>> THEN <<>>
    ELSE Head(texts) \o (IF Len(texts) > 1 THEN sep ELSE <<>>) \o Separated(Tail(texts), sep)

\* sequences of 1 to MaxPieces elements of a set
PieceLines(pieces) == UNION {[1..n -> pieces] : n \in 1..MaxPieces}

\* the pieces of a body line of a macro with the given parameters
VariadicPieces(params) ==
    {<<"p">>, Placeholder(VA_ARGS)} \cup {Placeholder(params[i]) : i \in 1..(Len(params) - 1)}

PositionalPieces(n) == {<<"p">>} \cup {Placeholder(Decimal(i)) : i \in 0..(n - 1)}

\* the invocation of m with the first n arguments of the pool
Invocation(n) ==
    <<"#">> \o NameM \o (IF n = 0 THEN <<>> ELSE <<" ">> \o Separated(Take(ArgPool, n), <<",">>))

\* the line that opens the definition of m
DeclLine(argdecl) == <<"#", "d", "e", "f", "m", "a", "c", "r", "o", " ">> \o NameM \o <<" ">> \o argdecl

\* definition and invocation: the body is one line of pieces, the
\* invocation gives n arguments
ArgSource(argdecl, body, n) ==
    <<DeclLine(argdecl), Separated(body, <<" ">>), <<"#", "e", "n", "d", "m", "a", "c", "r", "o">>,
      Invocation(n)>>

\* a variadic macro invoked with all named arguments and 0..MaxTrailing more
VariadicSources ==
    UNION {{ArgSource(Separated(params, <<",", " ">>), body, Len(params) - 1 + k) :
                body \in PieceLines(VariadicPieces(params)), k \in 0..MaxTrailing} :
           params \in VariadicParams}

\* a macro with an integer argdecl n invoked with n arguments
PositionalSources ==
    UNION {{ArgSource(Decimal(n), body, n) : body \in PieceLines(PositionalPieces(n))} :
           n \in 1..MaxPositional}

InitArgs ==
    /\ phase = "source"
    /\ funcs = EmptyFn
    /\ src \in VariadicSources \cup PositionalSources
    /\ code = <<>>
    /\ log = <<>>
    /\ labels = EmptyFn
    /\ cur = NoCur
    /\ cts = {}
    /\ steps = <<>>
    /\ ip = 1
    /\ regs = [i \in 0..3 |-> {}]
    /\ stk = [i \in 0..2 |-> <<>>]
    /\ snap = [regs |-> regs, stk |-> stk]
    /\ macros = EmptyFn
    /\ debug = FALSE
    /\ depth = 0
    /\ b32 = <<>>
    /\ initial = [i \in 0..2 |-> <<>>]
    /\ funcinfo = <<>>

SpecArgs == InitArgs /\ [][NextMacro]_vars

IsVariadic == \E params \in VariadicParams : src[1] = DeclLine(Separated(params, <<",", " ">>))

IsPositional == \E n \in 1..MaxPositional : src[1] = DeclLine(Decimal(n))

\* the names under which the body refers to the parameters, in order
ParamNames ==
    IF IsVariadic
    THEN LET params == CHOOSE p \in VariadicParams : src[1] = DeclLine(Separated(p, <<",", " ">>))
         IN Take(params, Len(params) - 1)
    ELSE LET n == CHOOSE k \in 1..MaxPositional : src[1] = DeclLine(Decimal(k))
         IN [i \in 1..n |-> Decimal(i - 1)]

\* the arguments of the invocation
GivenArgs == Take(ArgPool, CHOOSE n \in 0..Len(ArgPool) : src[Len(src)] = Invocation(n))

\* what a piece of the body stands for
ExpectedPiece(piece) ==
    IF piece = Placeholder(VA_ARGS) THEN Separated(Drop(GivenArgs, Len(ParamNames)), <<",">>)
    ELSE IF \E i \in 1..Len(ParamNames) : piece = Placeholder(ParamNames[i])
    THEN GivenArgs[CHOOSE i \in 1..Len(ParamNames) : piece = Placeholder(ParamNames[i])]
    ELSE piece

\* the body line with every placeholder replaced by what it stands for
ExpectedLine ==
    LET pieces == Split(src[2], " ", <<>>)
    IN Separated([i \in 1..Len(pieces) |-> ExpectedPiece(pieces[i])], <<" ">>)

\* the invocation is replaced by the body with its placeholders filled in
ExpandsAsExpected ==
    /\ phase \notin {"raised", "recursion_error"}
    /\ phase = "expanded" => code = <<ExpectedLine>>

\* C11: for a macro whose last parameter is "...", invoked with the named
\* arguments and 0 to MaxTrailing more, every #{__VA_ARGS__} of the body is
\* replaced by the trailing arguments joined by commas (the empty text for
\* none) and every named placeholder by the argument at its parameter's
\* position.
C11_VariadicSubstitution == IsVariadic => ExpandsAsExpected

\* x, y1 and three trailing arguments
C11_Witness ==
    /\ phase = "expanded"
    /\ src[1] = DeclLine(<<"x", ",", " ", "y", "1", ",", " ", ".", ".", ".">>)
    /\ src[2] = Placeholder(VA_ARGS) \o <<" ">> \o Placeholder(ParamY)
    /\ src[4] = <<"#", "m", " ", "a", ",", "b", "2", ",", "c", ",", "d", "_", ",", "e">>
    /\ code = <<<<"c", ",", "d", "_", ",", "e", " ", "b", "2">>>>

\* no trailing argument: #{__VA_ARGS__} becomes the empty text
C11_NoTrailingWitness ==
    /\ phase = "expanded"
    /\ src[1] = DeclLine(<<"x", ",", " ", ".", ".", ".">>)
    /\ src[2] = <<"p", " ">> \o Placeholder(VA_ARGS)
    /\ src[4] = <<"#", "m", " ", "a">>
    /\ code = <<<<"p", " ">>>>

\* C12: a macro declared with an integer argdecl N and invoked with N
\* arguments has every placeholder #{i}, 0 <= i < N, of its body replaced by
\* the i-th argument.
C12_PositionalSubstitution == IsPositional => ExpandsAsExpected

\* a body that uses a positional placeholder
UsesPlaceholder == \E i \in 1..Len(src[2]) : src[2][i] = "{"

\* what the code does instead: argnames holds the integers 0..N-1, the
\* placeholder is a text, list.index raises ValueError
C12_PositionalRaises ==
    (IsPositional /\ UsesPlaceholder /\ phase \notin {"source", "macro"}) => phase = "raised"

C12_RaisedWitness ==
    /\ phase = "raised"
    /\ src[1] = DeclLine(<<"2">>)
    /\ src[2] = Placeholder(<<"0">>) \o <<" ">> \o Placeholder(<<"1">>)
    /\ src[4] = <<"#", "m", " ", "a", ",", "b", "2">>


----------------------------------------------------------------------------
(* Self-referential macros under SpecMacroFair *)

\* the name a #name invocation line gives after its "#"
InvokedName(line) ==
    LET text == Drop(line, Span(line, {" "}))
    IN SubSeq(text, 2, 1 + Span(Tail(text), WordChars))

\* a line of the body of m is an invocation of n
BodyInvokes(table, m, n) ==
    \E i \in 1..Len(table[m].code) :
        IsInvocation(table[m].code[i]) /\ InvokedName(table[m].code[i]) = n

RECURSIVE BodyReaches(_, _, _, _)
\* the body of m invokes n directly or through at most k - 1 other macros
BodyReaches(table, m, n, k) ==
    /\ k > 0
    /\ \/ BodyInvokes(table, m, n)
       \/ \E via \in DOMAIN table : BodyInvokes(table, m, via) /\ BodyReaches(table, via, n, k - 1)

\* the body of m invokes m itself, directly or through other macros
SelfReferential(table, m) == m \in DOMAIN table /\ BodyReaches(table, m, m, Cardinality(DOMAIN table))

\* the expander is at work on code that invokes a self-referential macro
ExpandingSelfReferential ==
    /\ phase = "macro"
    /\ \E i \in 1..Len(code) :
          IsInvocation(code[i]) /\ SelfReferential(macros, InvokedName(code[i]))

\* the expansion has ended with an error: RecursionError, or the KeyError or
\* IndexError of an invocation met on the way
StoppedWithError == phase \in {"recursion_error", "raised"}

----------------------------------------------------------------------------
(* SpecDrain: a function that pushes k bits on the compile-time stack and   *)
(* then drains it once, by pushl8, deflabel or endfunc.                     *)

MaxBits == 9

\* how many bits are pushed before the drain
BitCounts == 0..MaxBits

DrainSources ==
    {<<Ins("startfunc")>> \o [i \in 1..k |-> Ins(IF i % 2 = 1 THEN "one" ELSE "zero")] \o <<Ins(d)>> :
        k \in BitCounts, d \in {"pushl8", "deflabel", "endfunc"}}

InitDrain ==
    /\ phase = "source"
    /\ funcs = EmptyFn
    /\ src \in DrainSources
    /\ code = src
    /\ log = <<>>
    /\ labels = EmptyFn
    /\ cur = NoCur
    /\ cts = {}
    /\ steps = <<>>
    /\ ip = 1
    /\ regs = [i \in 0..3 |-> {}]
    /\ stk = [i \in 0..2 |-> <<>>]
    /\ snap = [regs |-> regs, stk |-> stk]
    /\ macros = EmptyFn
    /\ debug = FALSE
    /\ depth = 0
    /\ b32 = <<>>
    /\ initial = [i \in 0..2 |-> <<>>]
    /\ funcinfo = <<>>

SpecDrain == InitDrain /\ [][Next]_vars

\* how many bits a line drains from the compile-time stack
Drained(line) ==
    IF line.k # "ins" THEN 0
    ELSE IF line.op = "pushl8" THEN 8
    ELSE IF line.op \in {"deflabel", "endfunc"} THEN 64
    ELSE 0

\* the number of bits pushed and not yet drained after the lines c
PendingBits(c) ==
    LET pending[i \in 0..Len(c)] ==
            IF i = 0 THEN 0
            ELSE IF c[i].k = "ins" /\ c[i].op \in {"zero", "one"} THEN pending[i - 1] + 1
            ELSE IF Drained(c[i]) = 0 THEN pending[i - 1]
            ELSE IF pending[i - 1] > Drained(c[i]) THEN pending[i - 1] - Drained(c[i])
            ELSE 0
    IN pending[Len(c)]

\* line j drains more bits than are pending
Underflows(j) == Drained(code[j]) > PendingBits(Take(code, j - 1))

\* the generator has translated line j without raising
Translated(j) == (phase = "lowered" /\ ip > j) \/ phase \in {"run", "done"}

\* C14: a drain of 8 or 64 bits that finds fewer bits pushed and not yet
\* drained is an error: the generator never gets past such a line.
C14_UnderflowIsError ==
    \A j \in 1..Len(code) :
        (phase \in {"lowered", "run", "done"} /\ Underflows(j)) => ~Translated(j)

\* what the generator does: the missing bits of the drained byte are zero
C14_MissingBitsAreZero ==
    (phase \in {"run", "done"} /\ code[Len(code)] = Ins("pushl8"))
        => /\ Len(steps) = 1
           /\ steps[1].op = "s0.push"
           /\ Len(code) = 2 => steps[1].arg = 0
           /\ Len(code) = 5 => steps[1].arg = 5

\* pushl8 on the empty compile-time stack has emitted s0.push(0)
C14_DrainedEmptyWitness ==
    /\ phase = "run"
    /\ code = <<Ins("startfunc"), Ins("pushl8")>>
    /\ steps = <<Step("s0.push", 0)>>


----------------------------------------------------------------------------
(* Function ids from the funcinfo file: ExtensionResolver.__init__ and     *)
(* _resolve_autofuncs.  A function of the table split_funcs builds is      *)
(* [neg, id, content]; ";\autofunc std" leaves id -1 and ";\autofunc usr"  *)
(* id -2 until the funcinfo file gives the id.                             *)

FuncBody(neg, id, content) == [neg |-> neg, id |-> id, content |-> content]

\* a row of the funcinfo file
Row(name, type, id) == [name |-> name, type |-> type, id |-> id]

\* int(digits, 2)
FromBinary(digits) == {Len(digits) - j : j \in {i \in 1..Len(digits) : digits[i] = "1"}}

\* the id of a row whose function has no source implementation, std and
\* usr exchanged
StubId_swapped(row) ==
    CASE row.type = "std" -> FromBinary(<<"1", "0">> \o Binary(row.id))
      [] row.type = "usr" -> FromBinary(<<"1", "1">> \o Binary(row.id))
      [] row.type = "raw" -> row.id

\* full_id of a row whose function has no source implementation
StubId(row) ==
    CASE row.type = "std" -> FromBinary(<<"1", "1">> \o Binary(row.id))
      [] row.type = "usr" -> FromBinary(<<"1", "0">> \o Binary(row.id))
      [] row.type = "raw" -> row.id

\* the id stored for a row whose function is in the source
ImplementedId(row) ==
    CASE row.type = "raw" -> row.id
      [] row.type = "std" -> FromBinary(<<"1", "1">> \o Binary(row.id))
      [] row.type = "usr" -> FromBinary(<<"1", "0">> \o Binary(row.id))

\* the line ";\func 0b<digits>" written in front of a function
FuncComment(id) == Line("comment", "func", "", -1, FALSE, id, NoWidth)

\* state of _resolve_autofuncs before the first row: the code of "!!top!!"
\* and the table without it
AutofuncStart(fs) ==
    [result |-> fs["!!top!!"].content,
     funcs |-> [n \in DOMAIN fs \ {"!!top!!"} |-> fs[n]],
     funcnames_in_funcinfo |-> {},
     raised |-> FALSE]

\* one row of the funcinfo file
AutofuncRow(st, row) ==
    IF st.raised THEN st
    ELSE IF row.type \notin {"raw", "std", "usr"} THEN [st EXCEPT !.raised = TRUE]
    ELSE IF row.name \in DOMAIN st.funcs
    THEN [st EXCEPT !.result = @ \o <<FuncComment(ImplementedId(row))>>
                                 \o st.funcs[row.name].content,
                    !.funcs[row.name].neg = FALSE,
                    !.funcs[row.name].id = ImplementedId(row),
                    !.funcnames_in_funcinfo = @ \cup {row.name}]
    ELSE [st EXCEPT !.result = @ \o <<FuncComment(StubId(row)),
                                      Line("comment", row.name, "", -1, FALSE, {}, NoWidth),
                                      Line("comment", "implement", "", -1, FALSE, {}, NoWidth)>>,
                    !.funcs = (row.name :> FuncBody(FALSE, StubId(row), <<>>)) @@ @]

RECURSIVE AutofuncScan(_, _)
\* the loop over the rows
AutofuncScan(st, rows) ==
    IF rows = <<>> THEN st ELSE AutofuncScan(AutofuncRow(st, Head(rows)), Tail(rows))

\* ExtensionResolver.__init__: the ids are taken from the funcinfo file when
\* any function of the table has a negative id, else the source is read as is
ResolveAutofuncs ==
    /\ phase = "split"
    /\ IF \E n \in DOMAIN funcs : funcs[n].neg
       THEN \E st \in {AutofuncScan(AutofuncStart(funcs), funcinfo)} :
               /\ phase' = IF st.raised THEN "exit" ELSE "source"
               /\ funcs' = st.funcs
               /\ code' = st.result
       ELSE /\ phase' = "source"
            /\ code' = src
            /\ UNCHANGED funcs
    /\ UNCHANGED <<src, log, labels, cur, cts, steps, ip, regs, stk, snap, macros, debug, depth,
                   b32, initial, funcinfo>>

----------------------------------------------------------------------------
(* SpecFuncs: a source with function f, whose body refers to a function by *)
(* @{name} or \call name, and optionally an autofunc g; a funcinfo file     *)
(* with a row for f and optionally a row for h, which has no source.        *)

MaxRawId == 3

RawIds == {Nat2Bits(n) : n \in 0..MaxRawId}

\* ";\autofunc std" is read as ";\func -0b1", ";\autofunc usr" as ";\func -0b10"
PendingIds == {FuncId(TRUE, {0}), FuncId(TRUE, {1})}

\* the lines split_funcs collects for a function: its ";\@name" line and its body
Content(name, body) ==
    <<Line("comment", name, "", -1, FALSE, {}, NoWidth), Ins("startfunc")>> \o body
        \o <<Ins("endfunc")>>

References == {Ref(t) : t \in {"f", "g", "h"}} \cup {Call(t) : t \in {"f", "g", "h"}}

\* the table of split_funcs: "!!top!!", f, and g when the source has it
FuncTables ==
    {("!!top!!" :> FuncBody(TRUE, {1}, <<>>))
        @@ ("f" :> FuncBody(d.neg, d.id, Content("f", <<r>>))) @@ g :
        d \in PendingIds \cup {FuncId(FALSE, {0, 2})},
        r \in References,
        g \in {EmptyFn} \cup {("g" :> FuncBody(p.neg, p.id, Content("g", <<>>))) : p \in PendingIds}}

FuncinfoFiles ==
    {<<Row("f", t, n)>> \o h :
        t \in {"raw", "std", "usr", "ext"}, n \in RawIds,
        h \in {<<>>} \cup {<<Row("h", t2, n2)>> : t2 \in {"raw", "std", "usr"}, n2 \in RawIds}}

InitFuncs ==
    /\ phase = "split"
    /\ funcs \in FuncTables
    /\ funcinfo \in FuncinfoFiles
    /\ src = funcs["f"].content \o (IF "g" \in DOMAIN funcs THEN funcs["g"].content ELSE <<>>)
    /\ code = <<>>
    /\ log = <<>>
    /\ labels = EmptyFn
    /\ cur = NoCur
    /\ cts = {}
    /\ steps = <<>>
    /\ ip = 1
    /\ regs = [i \in 0..3 |-> {}]
    /\ stk = [i \in 0..2 |-> <<>>]
    /\ snap = [regs |-> regs, stk |-> stk]
    /\ macros = EmptyFn
    /\ debug = FALSE
    /\ depth = 0
    /\ b32 = <<>>
    /\ initial = [i \in 0..2 |-> <<>>]

NextFuncs ==
    \/ ResolveAutofuncs
    \/ ResolvePseudoOps
    \/ ResolveDependantPseudoOps
    \/ ResolveFuncref
    \/ ResolveLiteral

SpecFuncs == InitFuncs /\ [][NextFuncs]_vars

\* the function the body of f refers to
Target == src[3].name

\* the function has an id taken from the source or from the funcinfo file
Resolved(name) == name \in DOMAIN funcs /\ ~funcs[name].neg

\* the funcref pass has run to its end
FuncrefDone == phase \in {"funcref", "lowered"}

\* C15: after the function-reference pass every @{name}, those produced by
\* \call included, has been replaced by a literal of a resolved non-negative
\* id; a name with no resolved id (absent from the table, or an autofunc
\* the funcinfo file has no row for) stops the lowering and is never emitted
\* as a literal.
C15_ReferencesResolve ==
    FuncrefDone =>
        /\ Resolved(Target)
        /\ \A i \in 1..Len(code) : code[i].k # "ref"
        /\ phase = "funcref" => \E i \in 1..Len(code) : code[i] = Lit(FALSE, funcs[Target].id, NoWidth)

\* the part that holds: a name that is not in the table stops the lowering
C15_AbsentIsFatal == FuncrefDone => Target \in DOMAIN funcs

\* the part that holds: a resolved name becomes the literal of its id
C15_ResolvedIsLiteral ==
    (phase = "funcref" /\ Resolved(Target))
        => \E i \in 1..Len(code) : code[i] = Lit(FALSE, funcs[Target].id, NoWidth)

\* @{g} of a pending autofunc g has been lowered to the 64 digits of 2**64 - 1
C15_PendingEmittedWitness ==
    /\ phase = "lowered"
    /\ Target = "g"
    /\ funcs["g"] = FuncBody(TRUE, {0}, Content("g", <<>>))
    /\ Cardinality({i \in 1..Len(code) : code[i] = Ins("one")}) >= 64

\* a reference to a name absent from the table has raised KeyError
C15_AbsentRaisedWitness == phase = "raised" /\ Target \notin DOMAIN funcs

\* the id the rows' tag and raw id stand for: the tag bits in front of the
\* binary digits of n, which are at least one digit
TagBits(type) == IF type = "std" THEN {0, 1} ELSE {1}

ExpectedId(row) ==
    IF row.type = "raw" THEN row.id
    ELSE Shl(TagBits(row.type), IF row.id = {} THEN 1 ELSE BitLen(row.id)) \cup row.id

\* C16: for every funcinfo row of type std or usr with raw id n the resolved
\* id of the function is the number whose binary digits are the tag bits (11
\* for std, 10 for usr) followed by the binary digits of n, and for type raw
\* it is n; with a source implementation (f) and without one (h).
C16_TaggedIds ==
    phase \notin {"split", "exit"} =>
        \A i \in 1..Len(funcinfo) :
            /\ funcinfo[i].name \in DOMAIN funcs
            /\ funcs[funcinfo[i].name].id = ExpectedId(funcinfo[i])
            /\ ~funcs[funcinfo[i].name].neg

\* f (in the source) is std 2 and has id 0b1110, h (not in the source) is usr 0
\* and has id 0b100
C16_Witness ==
    /\ phase = "source"
    /\ funcinfo = <<Row("f", "std", {1}), Row("h", "usr", {})>>
    /\ funcs["f"].id = {1, 2, 3}
    /\ funcs["h"].id = {2}
    /\ funcs["h"].content = <<>>
    /\ funcs["f"].content # <<>>

----------------------------------------------------------------------------
(* SpecUnknown: sources of up to MaxSourceLines lines, among them a        *)
(* directive "\foo 1" pass 1 does not know and a deferred op "%foo 1"      *)
(* pass 2 does not know.                                                    *)

MaxSourceLines == 2

UnknownPseudo == Line("pseudo", "foo", "", -1, FALSE, {0}, NoWidth)

UnknownDep == Line("dep", "foo", "", -1, FALSE, {0}, NoWidth)

SourceLines == {UnknownPseudo, UnknownDep, PushL8(5), AutoPush({0, 2}), Ins("nand"), Ins("xchg03")}

UnknownSources == UNION {[1..n -> SourceLines] : n \in 1..MaxSourceLines}

InitUnknown ==
    /\ phase = "source"
    /\ funcs = EmptyFn
    /\ src \in UnknownSources
    /\ code = src
    /\ log = <<>>
    /\ labels = EmptyFn
    /\ cur = NoCur
    /\ cts = {}
    /\ steps = <<>>
    /\ ip = 1
    /\ regs = [i \in 0..3 |-> {}]
    /\ stk = [i \in 0..2 |-> <<>>]
    /\ snap = [regs |-> regs, stk |-> stk]
    /\ macros = EmptyFn
    /\ debug = FALSE
    /\ depth = 0
    /\ b32 = <<>>
    /\ initial = [i \in 0..2 |-> <<>>]
    /\ funcinfo = <<>>

SpecUnknown == InitUnknown /\ [][Next]_vars

HasUnknownPseudo == \E i \in 1..Len(src) : src[i] = UnknownPseudo

HasUnknownDep == \E i \in 1..Len(src) : src[i] = UnknownDep

\* C17: an unknown "\" directive met by pass 1, and an unknown "%" deferred
\* op met by pass 2, is fatal: the lowering stops at that line, no later pass
\* runs and no lowered instruction stream is produced.
C17_UnknownOpIsFatal ==
    /\ HasUnknownPseudo => phase \in {"source", "raised"}
    /\ HasUnknownDep => phase \in {"source", "pass1", "raised"}

\* what the passes do: the error is logged, the line is replaced by the
\* error marker and the pass goes on with the next line
C17_UnknownOpIsLogged ==
    /\ (HasUnknownPseudo /\ phase # "source")
          => /\ phase # "raised"
             /\ \E i \in 1..Len(log) : log[i] = "unknown pseudo operation"
             /\ phase \in {"pass1", "pass2", "funcref", "lowered"}
                   => \E i \in 1..Len(code) : code[i] = ErrLine
    /\ (HasUnknownDep /\ phase \notin {"source", "pass1"})
          => /\ phase # "raised"
             /\ \E i \in 1..Len(log) : log[i] = "unknown dependant pseudo operation"
             /\ phase \in {"pass2", "funcref", "lowered"}
                   => \E i \in 1..Len(code) : code[i] = ErrLine

\* all four passes have run over a source with "\foo 1" and the lines after
\* the directive have been lowered
C17_PseudoLoweredWitness ==
    /\ phase = "lowered"
    /\ src = <<UnknownPseudo, PushL8(5)>>
    /\ code = <<ErrLine, Ins("one"), Ins("zero"), Ins("one"), Ins("pushl8")>>

\* the same for "%foo 1"
C17_DepLoweredWitness ==
    /\ phase = "lowered"
    /\ src = <<UnknownDep, Ins("nand")>>
    /\ code = <<ErrLine, Ins("nand")>>

----------------------------------------------------------------------------
(* SpecShift: the instruction lshift, lowered, generated and run for every *)
(* value of the low byte of r1.                                            *)

ByteValues == 0..255

ShiftRegs == {{}, {0}, {0, 3, 8, 40}, {63}, Word}

\* bits of r1 above the low byte
HighBits == {{}, {8, 40}}

InitShift ==
    /\ phase = "source"
    /\ funcs = EmptyFn
    /\ src = <<Ins("lshift")>>
    /\ code = src
    /\ log = <<>>
    /\ labels = EmptyFn
    /\ cur = NoCur
    /\ cts = {}
    /\ steps = <<>>
    /\ ip = 1
    /\ \E a \in ShiftRegs, b \in ByteValues, h \in HighBits :
          regs = (0 :> a) @@ (1 :> (h \cup Nat2Bits(b))) @@ (2 :> {1, 62}) @@ (3 :> {})
    /\ stk = [i \in 0..2 |-> <<>>]
    /\ snap = [regs |-> regs, stk |-> stk]
    /\ macros = EmptyFn
    /\ debug = FALSE
    /\ depth = 0
    /\ b32 = <<>>
    /\ initial = [i \in 0..2 |-> <<>>]
    /\ funcinfo = <<>>

SpecShift == InitShift /\ [][Next]_vars

\* the low byte of r1 read as a signed 8-bit number
ShiftAmount == IF LowByte(snap.regs[1]) < 128 THEN LowByte(snap.regs[1])
               ELSE LowByte(snap.regs[1]) - 256

\* the value the shift by ShiftAmount stands for
ShiftedValue ==
    IF 0 <= ShiftAmount /\ ShiftAmount < 64 THEN Shl(snap.regs[0], ShiftAmount) \cap Word
    ELSE IF -64 < ShiftAmount /\ ShiftAmount < 0 THEN Shr(snap.regs[0], 0 - ShiftAmount)
    ELSE {}

\* C18: for every r0 and every low byte of r1, read as the signed amount a,
\* lshift leaves r2 = (r0 << a) mod 2^64 for 0 <= a < 64, r2 = r0 >> |a| for
\* -64 < a < 0, and r2 = 0 for |a| >= 64, a = -128 included.
C18_ShiftSaturates == phase = "done" => regs[2] = ShiftedValue

\* the claim for every amount but -128
C18_ShiftExceptMin == (phase = "done" /\ ShiftAmount # -128) => regs[2] = ShiftedValue

\* lshift touches nothing but r2
C18_ShiftKeepsOthers ==
    phase = "done" => /\ \A i \in {0, 1, 3} : regs[i] = snap.regs[i]
                      /\ stk = snap.stk

\* the amount is -128 and r2 is r0, not 0
C18_MinAmountWitness ==
    /\ phase = "done"
    /\ ShiftAmount = -128
    /\ snap.regs[0] = {0, 3, 8, 40}
    /\ regs[2] = snap.regs[0]

----------------------------------------------------------------------------
(* Assembly backend: NyulanGenerator.line.  A step is an instruction of the *)
(* target assembly and the registers it names; a step that names a label   *)
(* of the runtime or a literal carries that name or number.                *)

\* the steps that call a primitive of the runtime through r2
CallRuntime(name) ==
    <<Step("PUSHL64", name), Step("POP64", <<2>>), Step("CALL", <<2>>)>>

\* the effect of one instruction line on the generator: its compile-time
\* stack, the steps added to the current function, and whether ParseError
\* is raised
NyulanGenLine(value, line) ==
    LET out(v, ss) == [cts |-> v, steps |-> ss, raised |-> FALSE]
    IN IF line.k = "comment" THEN out(value, <<>>)
       ELSE IF line.k # "ins" THEN [cts |-> value, steps |-> <<>>, raised |-> TRUE]
       ELSE CASE line.op = "nand" ->
                    out(value, <<Step("AND", <<0, 1>>), Step("NOT", <<0>>)>>)
              [] line.op \in {"lshift", "rshift"} ->
                    out(value, <<Step("PUSHL8", 255), Step("POP8", <<2>>), Step("AND", <<2, 1>>),
                                 Step(IF line.op = "lshift" THEN "Lshift" ELSE "Rshift", <<0, 2>>)>>)
              [] line.op = "push8s0" -> out(value, <<Step("PUSHR8", <<0>>)>>)
              [] line.op = "pop8s0" -> out(value, <<Step("POP8", <<0>>)>>)
              [] line.op = "push8s1" ->
                    out(value, <<Step("PUSHR8", <<1>>)>> \o CallRuntime("lan22_push8s1"))
              [] line.op = "pop8s1" ->
                    out(value, CallRuntime("lan22_pop8s1") \o <<Step("POP8", <<1>>)>>)
              [] line.op = "call" -> out(value, <<Step("CALL", <<0>>)>>)
              [] line.op = "ret" -> out(value, <<Step("RET", <<>>)>>)
              [] line.op = "print" ->
                    out(value, <<Step("PUSHR8", <<0>>)>> \o CallRuntime("lan22_print"))
              [] line.op = "read" ->
                    out(value, CallRuntime("lan22_read") \o <<Step("POP8", <<0>>)>>)
              [] line.op = "exit" ->   \* the literal (1 << 63) | 60 in place of a label
                    out(value, <<Step("PUSHR8", <<0>>)>> \o CallRuntime("exit"))
              [] line.op = "startfunc" -> out(value, <<>>)
              [] line.op = "endfunc" -> out(pop64(value).rest, <<>>)
              [] line.op = "deflabel" ->
                    out(pop64(value).rest, <<Step("label", pop64(value).result)>>)
              [] line.op = "func2addr" ->
                    out(value, <<Step("PUSHR64", <<1>>)>> \o CallRuntime("lan22_func2addr")
                                 \o <<Step("POP64", <<0>>)>>)
              [] line.op = "label2addr" ->
                    out(value, <<Step("PUSHR64", <<1>>), Step("PUSHL64", "funcname")>>
                                 \o CallRuntime("lan22_label2addr") \o <<Step("POP64", <<0>>)>>)
              [] line.op = "zero" -> out(push1(value, 0), <<>>)
              [] line.op = "one" -> out(push1(value, 1), <<>>)
              [] line.op = "ifz" -> out(value, <<Step("IFZ", <<0, 1>>)>>)
              [] line.op = "pushl8" ->
                    out(pop8(value).rest, <<Step("PUSHL8", pop8(value).result)>>)
              [] line.op = "xchg" ->
                    out(value, <<Step("PUSHR64", <<0>>), Step("MOV", <<0, 1>>), Step("POP64", <<1>>)>>)
              [] OTHER -> [cts |-> value, steps |-> <<>>, raised |-> TRUE]

\* the registers after a step of the target machine.  A two-operand
\* instruction writes its first operand, as the generator's own sequences
\* use it ("XOR r0,r0" clears r0, "PUSHR64 r0 / MOV r0,r1 / POP64 r1"
\* exchanges r0 and r1); steps that work on the stack or enter the runtime
\* are not followed.
NyulanExec(step, r) ==
    CASE step.op = "AND" -> [r EXCEPT ![step.arg[1]] = r[step.arg[1]] \cap r[step.arg[2]]]
      [] step.op = "XOR" ->
            [r EXCEPT ![step.arg[1]] = (r[step.arg[1]] \cup r[step.arg[2]])
                                           \ (r[step.arg[1]] \cap r[step.arg[2]])]
      [] step.op = "NOT" -> [r EXCEPT ![step.arg[1]] = Word \ r[step.arg[1]]]
      [] step.op = "MOV" -> [r EXCEPT ![step.arg[1]] = r[step.arg[2]]]
      [] OTHER -> r

\* NyulanGenerator.line on the next line of the lowered code
NyulanTranslateLine ==
    /\ phase = "nyulan"
    /\ IF ip > Len(code)
       THEN /\ phase' = IF steps = <<>> THEN "nyulan_done" ELSE "nyulan_run"
            /\ ip' = 1
            /\ UNCHANGED <<cts, steps>>
       ELSE \E g \in {NyulanGenLine(cts, code[ip])} :
               /\ phase' = IF g.raised THEN "parse_error" ELSE "nyulan"
               /\ cts' = g.cts
               /\ steps' = steps \o g.steps
               /\ ip' = ip + 1
    /\ UNCHANGED <<src, code, log, funcs, labels, cur, regs, stk, snap, macros, debug, depth,
                   b32, initial, funcinfo>>

\* one step of the emitted assembly
NyulanRunStep ==
    /\ phase = "nyulan_run"
    /\ regs' = NyulanExec(steps[ip], regs)
    /\ phase' = IF ip = Len(steps) THEN "nyulan_done" ELSE "nyulan_run"
    /\ ip' = ip + 1
    /\ UNCHANGED <<src, code, log, funcs, labels, cur, cts, steps, stk, snap, macros, debug,
                   depth, b32, initial, funcinfo>>

----------------------------------------------------------------------------
(* SpecNand: the lowered line "nand" given to the native generator (phase  *)
(* "lowered") or to the assembly generator (phase "nyulan") and run.       *)

NandRegs == {{}, {0}, {0, 3, 8, 40}, {3, 63}, Word}

InitNand ==
    /\ phase \in {"lowered", "nyulan"}
    /\ funcs = EmptyFn
    /\ src \in {<<Ins("nand")>>, <<Ins("nand"), Ins("nand")>>, <<Ins("xchg03"), Ins("nand")>>}
    /\ code = src
    /\ log = <<>>
    /\ labels = EmptyFn
    /\ cur = NoCur
    /\ cts = {}
    /\ steps = <<>>
    /\ ip = 1
    /\ \E a, b, c \in NandRegs : regs = (0 :> a) @@ (1 :> b) @@ (2 :> c) @@ (3 :> {})
    /\ stk = [i \in 0..2 |-> <<>>]
    /\ snap = [regs |-> regs, stk |-> stk]
    /\ macros = EmptyFn
    /\ debug = FALSE
    /\ depth = 0
    /\ b32 = <<>>
    /\ initial = [i \in 0..2 |-> <<>>]
    /\ funcinfo = <<>>

NextNand == TranslateLine \/ RunStep \/ NyulanTranslateLine \/ NyulanRunStep

SpecNand == InitNand /\ [][NextNand]_vars

OneNand == src = <<Ins("nand")>>

\* NOT(r0 AND r1) of the registers as they were before the instruction
NandValue == Word \ (snap.regs[0] \cap snap.regs[1])

\* C19: in the native and in the assembly backend the code emitted for nand
\* leaves r2 = NOT(r0 AND r1): the result is in r2 and is the bitwise
\* complement of the bitwise AND of r0 and r1.
C19_NandInEveryBackend ==
    (OneNand /\ phase \in {"done", "nyulan_done"}) => regs[2] = NandValue

\* the native backend does so and keeps r0, r1 and r3
C19_NativeNand ==
    (OneNand /\ phase = "done")
        => /\ regs[2] = NandValue
           /\ \A i \in {0, 1, 3} : regs[i] = snap.regs[i]

\* the assembly backend leaves the result in r0 and r2 as it was
C19_AssemblyNandInR0 ==
    (OneNand /\ phase = "nyulan_done")
        => /\ regs[0] = NandValue
           /\ \A i \in {1, 2, 3} : regs[i] = snap.regs[i]

\* the assembly code has run and r2 is not NOT(r0 AND r1)
C19_AssemblyWitness ==
    /\ OneNand
    /\ phase = "nyulan_done"
    /\ steps = <<Step("AND", <<0, 1>>), Step("NOT", <<0>>)>>
    /\ snap.regs[0] = {0, 3, 8, 40}
    /\ snap.regs[1] = {0}
    /\ regs[2] = {} /\ regs[0] = Word \ {0}

\* the native code has run
C19_NativeWitness ==
    /\ OneNand
    /\ phase = "done"
    /\ snap.regs[0] = {0, 3, 8, 40}
    /\ snap.regs[1] = {0}
    /\ snap.regs[2] = {}
    /\ regs[2] = Word \ {0}

----------------------------------------------------------------------------
(* SpecJump: a function with label 0, an ifz with the literal of a label   *)
(* id in front of it and a second label with the literal 1, lowered,        *)
(* generated by the native backend and run.                                 *)

MaxLabelId == 2

JumpRegs == {Nat2Bits(n) : n \in 0..5} \cup {{63}}

JumpSource(t) ==
    <<Ins("startfunc"),
      Lit(FALSE, {}, NoWidth), Ins("deflabel"),
      Ins("nand"),
      Lit(FALSE, t, NoWidth), Ins("ifz"),
      Ins("xchg03"),
      Lit(FALSE, {0}, NoWidth), Ins("deflabel"),
      Ins("xchg13"),
      Lit(FALSE, {}, NoWidth), Ins("endfunc")>>

InitJump ==
    /\ phase = "source"
    /\ funcs = EmptyFn
    /\ \E n \in 0..MaxLabelId : src = JumpSource(Nat2Bits(n))
    /\ code = src
    /\ log = <<>>
    /\ labels = EmptyFn
    /\ cur = NoCur
    /\ cts = {}
    /\ steps = <<>>
    /\ ip = 1
    /\ \E a \in JumpRegs, b \in {{}, {0}, {8}} :
          regs = (0 :> a) @@ (1 :> b) @@ (2 :> {}) @@ (3 :> {62})
    /\ stk = [i \in 0..2 |-> <<>>]
    /\ snap = [regs |-> regs, stk |-> stk]
    /\ macros = EmptyFn
    /\ debug = FALSE
    /\ depth = 0
    /\ b32 = <<>>
    /\ initial = [i \in 0..2 |-> <<>>]
    /\ funcinfo = <<>>

SpecJump == InitJump /\ [][Next]_vars

\* the label id whose literal stands in front of ifz
IntendedId == src[5].v

\* the generator has just translated the line ifz
IfzTranslated == phase = "lowered" /\ ip > 1 /\ code[ip - 1] = Ins("ifz")

\* the emitted function is about to run the step of ifz
AtIfz == phase = "run" /\ steps[ip].op = "ifz"

\* the function has a label with this id
HasLabel(id) == \E j \in 1..Len(steps) : steps[j].op = "label" /\ steps[j].arg = id

\* C20: ifz drains a 64-bit label id from the compile-time stack when it is
\* translated; at runtime, when r1 = 0, control goes to exactly the label
\* with the drained id, whatever r0 holds, and when r1 # 0 it falls through.
C20_IfzJumpsToDrainedLabel ==
    /\ [](IfzTranslated => cts = {})
    /\ [][(AtIfz /\ regs[1] = {})
             => (phase' = "run" /\ steps[ip'].op = "label" /\ steps[ip'].arg = IntendedId)]_vars
    /\ [][(AtIfz /\ regs[1] # {}) => (phase' = "run" /\ ip' = ip + 1)]_vars

\* what the generator does: ifz leaves the compile-time stack as it is
C20_IfzKeepsStack == IfzTranslated => cts = IntendedId

\* what the emitted code does: when r1 = 0 it goes to the label whose id is
\* r0, and exits when the function has no such label
C20_IfzJumpsByR0 ==
    [][(AtIfz /\ regs[1] = {})
          => IF HasLabel(regs[0])
             THEN phase' = "run" /\ steps[ip'].op = "label" /\ steps[ip'].arg = regs[0]
             ELSE phase' = "exit"]_vars

\* when r1 # 0 the next step runs
C20_IfzFallsThrough == [][(AtIfz /\ regs[1] # {}) => (phase' = "run" /\ ip' = ip + 1)]_vars

\* the literal in front of ifz is 0, r0 is 1 and r1 is 0: control is at the
\* second label, and xchg03 between ifz and the label has not run
C20_JumpedByR0Witness ==
    /\ phase = "run"
    /\ IntendedId = {}
    /\ snap.regs[0] = {0}
    /\ regs[1] = {}
    /\ ip = 5
    /\ steps[5] = Step("label", {0})
    /\ regs[3] = {62}

\* r1 is 0 and r0 is the id of no label: the switch has called std::exit(1)
C20_NoLabelWitness == phase = "exit" /\ IntendedId = {} /\ snap.regs[0] = {1}

\* r1 # 0: the step after ifz has run
C20_FallThroughWitness == phase = "run" /\ regs[1] = {8} /\ ip = 5 /\ regs[3] = snap.regs[0]

----------------------------------------------------------------------------
(* C21, on SpecJump: the literal in front of ifz names a label id no        *)
(* deflabel of the function declares.                                       *)

\* the ids of the literals in front of the two deflabel lines of the source
DeclaredIds == {src[2].v, src[8].v}

\* the generator has gone through the whole function without raising
UnitGenerated == phase \in {"run", "done", "exit", "fault", "called"}

\* C21: an ifz whose target label has no matching deflabel in the same
\* function is a fatal code-generation error: the backend fails while it
\* generates the code and never emits a unit for that program.
C21_MissingLabelIsFatal == IntendedId \notin DeclaredIds => ~UnitGenerated

\* what the backend does: the function is generated whatever the ids are, and
\* a missing label is met only by the default branch of the switch at runtime
C21_GeneratedAnyway == phase \notin {"parse_error", "raised"}

\* the unit of a function with labels 0 and 1 and an ifz for label 2 has been
\* generated, has run with r1 = 0 and r0 = 2, and has called std::exit(1)
C21_RuntimeExitWitness ==
    /\ phase = "exit"
    /\ IntendedId = {1}
    /\ IntendedId \notin DeclaredIds
    /\ snap.regs[0] = {1}
    /\ \E i \in 1..Len(steps) : steps[i].op = "ifz"

----------------------------------------------------------------------------
(* SpecRead: the instruction read, lowered, generated by the native backend *)
(* and run for every input event.                                           *)

ReadRegs == {{}, {0, 3}, {0, 3, 8, 40}, {63}, Word}

InitRead ==
    /\ phase = "source"
    /\ funcs = EmptyFn
    /\ src \in {<<Ins("read")>>, <<Ins("xchg13"), Ins("read")>>}
    /\ code = src
    /\ log = <<>>
    /\ labels = EmptyFn
    /\ cur = NoCur
    /\ cts = {}
    /\ steps = <<>>
    /\ ip = 1
    /\ \E a, b \in ReadRegs : regs = (0 :> a) @@ (1 :> b) @@ (2 :> {1, 62}) @@ (3 :> {9})
    /\ stk = [i \in 0..2 |-> <<>>]
    /\ snap = [regs |-> regs, stk |-> stk]
    /\ macros = EmptyFn
    /\ debug = FALSE
    /\ depth = 0
    /\ b32 = <<>>
    /\ initial = [i \in 0..2 |-> <<>>]
    /\ funcinfo = <<>>

SpecRead == InitRead /\ [][Next]_vars

OneRead == src = <<Ins("read")>>

HighPart(r) == r \ (0..7)

\* C22: read changes only the low byte of r0: for every input event, the end
\* of the stream included, bits 8..63 of r0 and the registers r1, r2 and r3
\* are the same after read as before.
C22_ReadChangesLowByteOnly ==
    (OneRead /\ phase = "done")
        => /\ HighPart(regs[0]) = HighPart(snap.regs[0])
           /\ \A i \in 1..3 : regs[i] = snap.regs[i]

\* what the emitted statement does: the value of std::cin.get() is or-ed
\* into r0, a byte into the low byte and EOF into all 64 bits; r1, r2 and r3
\* and the stacks are kept
C22_ReadOrsIntoR0 ==
    (OneRead /\ phase = "done")
        => /\ \E x \in CinGet : regs[0] = snap.regs[0] \cup x
           /\ \A i \in 1..3 : regs[i] = snap.regs[i]
           /\ stk = snap.stk

\* the stream was at its end: r0 was 0 and is 2^64 - 1
C22_EofWitness == OneRead /\ phase = "done" /\ snap.regs[0] = {} /\ regs[0] = Word

\* a byte was read: r0 was 0x10000000109 and has the bits of 0x42 added
C22_ByteWitness ==
    /\ OneRead
    /\ phase = "done"
    /\ snap.regs[0] = {0, 3, 8, 40}
    /\ regs[0] = {0, 1, 3, 6, 8, 40}

----------------------------------------------------------------------------
(* C23, on SpecLabels: references to labels declared later in the function *)

AutoLabelLines == {i \in 1..Len(src) : src[i].k = "pseudo" /\ src[i].op = "autolabel"}

\* every l{loop} of the program has exactly one \autolabel loop in its function
AllRefsDeclared ==
    \A f \in {0, 1} : RefLines(f, "loop") # {} => Cardinality(LabelLines(f, "loop")) = 1

\* some l{loop} stands before the \autolabel loop of its function
ForwardRef ==
    \E f \in {0, 1} : \E r \in RefLines(f, "loop") : \E i \in LabelLines(f, "loop") : r < i

\* C23: pass 2 runs after pass 1 has scanned every function, so a deferred
\* expression may refer to a label that \autolabel declares later in the same
\* function: it evaluates to the id of that label, and the k-th \autolabel of
\* a function (k counted from 0) always has id k.
C23_ForwardReference ==
    (phase \in {"pass2", "raised"} /\ AllRefsDeclared) =>
        /\ phase = "pass2"
        /\ \A i \in AutoLabelLines : code[Pos(i)] = Lit(FALSE, Nat2Bits(Rank(i)), NoWidth)
        /\ \A f \in {0, 1} : \A r \in RefLines(f, "loop") : \A i \in LabelLines(f, "loop") :
              code[Pos(r)] = Lit(FALSE, Nat2Bits(Rank(i)), NoWidth)

\* the same for the programs that have no comment line
C23_HoldsWithoutComments == NoComments => C23_ForwardReference

\* l{loop} stands before \autolabel top and \autolabel loop of its function
\* and has become the literal 1
C23_ForwardWitness ==
    /\ phase = "pass2"
    /\ NoComments
    /\ src[2] = AutoLiteralRef("loop")
    /\ src[3] = AutoLabel("top")
    /\ src[4] = AutoLabel("loop")
    /\ code[2] = Lit(FALSE, {0}, NoWidth)

\* a comment ";endfunc" stands between l{loop} and \autolabel loop: pass 1
\* has moved to function 1, which has no label table, and raises KeyError
C23_CommentWitness ==
    /\ phase = "raised"
    /\ src[2] = AutoLiteralRef("loop")
    /\ src[3] = Comment("endfunc")
    /\ src[4] = AutoLabel("loop")

----------------------------------------------------------------------------
(* FuncDeclarationSolver._resolve_funcdeclarations: the declarations of    *)
(* the funcinfo file written in front of the functions of the source.      *)

BlankLine == Line("comment", "", "", -1, FALSE, {}, NoWidth)

\* the line ";\func 0b<id>" of a raw row, ";\autofunc" of a std or usr row
DeclComment(row) == IF row.type = "raw" THEN FuncComment(row.id) ELSE Comment("autofunc")

\* the function written for a row that has no function in the source
DeclStub(row) ==
    <<DeclComment(row), Comment(row.name), Ins("startfunc"), Comment("implement"),
      Ref(row.name), Ins("endfunc"), BlankLine>>

\* one row of the funcinfo file
DeclRow(st, row) ==
    IF st.raised THEN st
    ELSE IF row.type \notin {"raw", "std", "usr"} THEN [st EXCEPT !.raised = TRUE]
    ELSE IF row.name \in DOMAIN st.funcs
    THEN [st EXCEPT !.result = @ \o <<DeclComment(row)>> \o st.funcs[row.name].content,
                    !.funcnames_in_funcinfo = @ \cup {row.name}]
    ELSE [st EXCEPT !.result = @ \o DeclStub(row)]

RECURSIVE DeclScan(_, _)
DeclScan(st, rows) ==
    IF rows = <<>> THEN st ELSE DeclScan(DeclRow(st, Head(rows)), Tail(rows))

\* FuncDeclarationSolver.__init__.  After the rows, every function of the
\* source that has no row is reported with logger.waning, which is not a
\* method of the logger: AttributeError, and self.code is not assigned.
ResolveFuncdeclarations ==
    /\ phase = "split"
    /\ \E st \in {DeclScan(AutofuncStart(funcs), funcinfo)} :
          /\ phase' = CASE st.raised -> "exit"
                        [] DOMAIN st.funcs \ st.funcnames_in_funcinfo # {} -> "raised"
                        [] OTHER -> "declared"
          /\ funcs' = st.funcs
          /\ code' = IF st.raised \/ DOMAIN st.funcs \ st.funcnames_in_funcinfo # {}
                     THEN code ELSE st.result
    /\ UNCHANGED <<src, log, labels, cur, cts, steps, ip, regs, stk, snap, macros, debug, depth,
                   b32, initial, funcinfo>>

----------------------------------------------------------------------------
(* SpecDecl: the sources and funcinfo files of SpecFuncs given to           *)
(* ExtensionResolver or to FuncDeclarationSolver.                           *)

NextDecl == ResolveAutofuncs \/ ResolveFuncdeclarations

SpecDecl == InitFuncs /\ [][NextDecl]_vars

HasLine(c, line) == \E i \in 1..Len(c) : c[i] = line

\* g is a function of the source (and has no row in the funcinfo file)
SourceOnly == Len(src) > 4

\* h has a row in the funcinfo file (and is not in the source)
RowOnly == Len(funcinfo) = 2

\* every row has a type the resolvers know
KnownTypes == \A i \in 1..Len(funcinfo) : funcinfo[i].type \in {"raw", "std", "usr"}

\* C24: a mismatch between the funcinfo table and the source, in either
\* direction, only produces a warning: processing continues to completion and
\* the output contains a body for that function, a stub when there is no
\* implementation and the source body when there is one.
C24_MismatchOnlyWarns ==
    (phase # "split" /\ KnownTypes) =>
        /\ phase \in {"source", "declared"}
        /\ RowOnly => HasLine(code, Comment("h"))
        /\ SourceOnly => HasLine(code, Comment("g"))

\* the direction that holds: a row with no function in the source is warned
\* about and a stub is written
C24_RowOnlyIsStubbed ==
    (phase # "split" /\ KnownTypes /\ RowOnly /\ ~SourceOnly) =>
        /\ phase \in {"source", "declared"}
        /\ HasLine(code, Comment("h"))
        /\ HasLine(code, Comment("implement"))

\* the other direction: ExtensionResolver warns and leaves the function out
\* of the output, FuncDeclarationSolver stops with AttributeError
C24_SourceOnlyIsLost ==
    (phase # "split" /\ KnownTypes /\ SourceOnly) =>
        /\ phase \in {"source", "raised"}
        /\ ~HasLine(code, Comment("g"))

\* ExtensionResolver has finished and the output has the body of f only
C24_DroppedWitness ==
    /\ phase = "source"
    /\ SourceOnly
    /\ HasLine(code, Comment("f"))
    /\ ~HasLine(code, Comment("g"))
    /\ "g" \in DOMAIN funcs

\* FuncDeclarationSolver has stopped at logger.waning
C24_WaningWitness == phase = "raised" /\ SourceOnly /\ KnownTypes /\ code = <<>>

\* FuncDeclarationSolver has written the stub of h
C24_StubWitness ==
    /\ phase = "declared"
    /\ RowOnly
    /\ HasLine(code, Ref("h"))
    /\ HasLine(code, Comment("autofunc"))

----------------------------------------------------------------------------
(* Claims about the byte-stack s0 during the sequence of \call (Spec) *)

\* the emitted function is about to pop s0
AtPopS0 == phase = "run" /\ IsCall /\ steps[ip].op = "pop8s0"

\* the id is written with fewer than 8 binary digits: num_shift = 0
ShortId == BitLen(funcs["f"].id) < 8

\* C25: the sequence \call name lowers to is balanced on s0 for every id: it
\* pops from s0 only bytes that the sequence itself pushed, so s0 holds the
\* same content when call executes as before the sequence, and the sequence
\* never pops s0 when s0 was empty at its start.
C25_CallBalancedOnS0 ==
    /\ AtCall => stk[0] = snap.stk[0]
    /\ AtPopS0 => Len(stk[0]) > Len(snap.stk[0])
    /\ (IsCall /\ snap.stk[0] = <<>>) => phase # "fault"

\* the same for the ids of fewer than 8 binary digits
C25_ShortIdBalanced == ShortId => C25_CallBalancedOnS0

\* an id of fewer than 8 digits, s0 empty before the sequence and at call
C25_ShortWitness == AtCall /\ ShortId /\ snap.stk[0] = <<>> /\ stk[0] = <<>>

\* the pop8s0 after ${8} pops a byte the caller left on s0
C25_TakenByteWitness ==
    /\ AtCall
    /\ ~ShortId
    /\ snap.stk[0] # <<>>
    /\ Len(stk[0]) < Len(snap.stk[0])

\* the pop8s0 after ${8} pops the empty s0
C25_EmptyPopWitness ==
    /\ AtPopS0
    /\ ~ShortId
    /\ snap.stk[0] = <<>>
    /\ stk[0] = <<>>
    /\ steps[ip - 1].op = "xchg03"

----------------------------------------------------------------------------
(* SpecSelf: one pseudo-op that lowers to literals and drains, \call,       *)
(* \pushl8, \pushl64 or \autopushltor0, through the passes and the          *)
(* generator, from an empty compile-time stack.                             *)

PushL64(v) == Line("pseudo", "pushl64", "", -1, FALSE, v, NoWidth)

\* 0, 5, 2^63 and 2^64 - 1
Values64 == {{}, {0, 2}, {63}, Word}

SelfInputs ==
    {[funcs |-> ("f" :> FuncId(FALSE, id)), src |-> <<Call("f")>>] : id \in FuncIds \cup {{8}}}
    \cup {[funcs |-> ("f" :> FuncId(FALSE, {})), src |-> <<AutoPush(v)>>] : v \in AutoValues}
    \cup {[funcs |-> ("f" :> FuncId(FALSE, {})), src |-> <<PushL8(n)>>] : n \in {0, 5, 255}}
    \cup {[funcs |-> ("f" :> FuncId(FALSE, {})), src |-> <<PushL64(v)>>] : v \in Values64}

InitSelf ==
    /\ phase = "source"
    /\ \E in \in SelfInputs : funcs = in.funcs /\ src = in.src
    /\ code = src
    /\ log = <<>>
    /\ labels = EmptyFn
    /\ cur = NoCur
    /\ cts = {}
    /\ steps = <<>>
    /\ ip = 1
    /\ regs = [i \in 0..3 |-> {}]
    /\ \E a \in StackSamples : stk = (0 :> a) @@ (1 :> <<7>>) @@ (2 :> <<>>)
    /\ snap = [regs |-> regs, stk |-> stk]
    /\ macros = EmptyFn
    /\ debug = FALSE
    /\ depth = 0
    /\ b32 = <<>>
    /\ initial = [i \in 0..2 |-> <<>>]
    /\ funcinfo = <<>>

SpecSelf == InitSelf /\ [][Next]_vars

\* C26: each lowered pseudo-op is self-contained on the compile-time stack:
\* starting from an empty compile-time stack, after the backend has processed
\* the whole sequence lowered from one \call, \pushl8 v, \pushl64 v or
\* \autopushltor0 v, the compile-time stack is empty again.
C26_CompileStackEmptyAfter == UnitGenerated => cts = {}

\* the same for every pseudo-op but \call
C26_EmptyUnlessCall == (UnitGenerated /\ src[1].op # "call") => cts = {}

\* \call of an id of at most 9 binary digits leaves the stack empty as well
C26_EmptyForShortCall ==
    (UnitGenerated /\ src[1].op = "call" /\ BitLen(funcs["f"].id) <= 9) => cts = {}

\* \call f with id 0x1234: bits of the id are left on the compile-time stack
C26_LeakWitness ==
    /\ UnitGenerated
    /\ src[1].op = "call"
    /\ funcs["f"].id = {2, 4, 5, 9, 12}
    /\ cts # {}

\* \pushl64 2^64 - 1 has been translated and has left nothing
C26_PushL64Witness ==
    /\ UnitGenerated
    /\ src[1].op = "pushl64"
    /\ src[1].v = Word
    /\ Len(steps) = 8
    /\ cts = {}

\* \autopushltor0 of a value of 9 bytes has been translated and has left nothing
C26_AutoPushWitness ==
    /\ UnitGenerated
    /\ src[1].op = "autopushltor0"
    /\ src[1].v = {3, 64}
    /\ cts = {}

----------------------------------------------------------------------------
(* SpecNeg: one negative literal line ${-v:w}, or \pushl8 -v, through the   *)
(* passes, the generator and the run.                                       *)

MaxNegValue == 20

MaxNegWidth == 4

NegInputs ==
    {<<Lit(TRUE, Nat2Bits(v), w)>> : v \in 1..MaxNegValue, w \in {NoWidth} \cup (1..MaxNegWidth)}
    \cup {<<PushL8(0 - v)>> : v \in 1..MaxNegValue}

InitNeg ==
    /\ phase = "source"
    /\ funcs = EmptyFn
    /\ src \in NegInputs
    /\ code = src
    /\ log = <<>>
    /\ labels = EmptyFn
    /\ cur = NoCur
    /\ cts = {}
    /\ steps = <<>>
    /\ ip = 1
    /\ regs = [i \in 0..3 |-> {}]
    /\ stk = [i \in 0..2 |-> <<>>]
    /\ snap = [regs |-> regs, stk |-> stk]
    /\ macros = EmptyFn
    /\ debug = FALSE
    /\ depth = 0
    /\ b32 = <<>>
    /\ initial = [i \in 0..2 |-> <<>>]
    /\ funcinfo = <<>>

SpecNeg == InitNeg /\ [][Next]_vars

\* the literal pass has replaced the negative literal of the source
NegLowered == phase = "lowered" /\ SourceLiteral.neg

\* the lines that replace the literal: all of the code, but the pushl8 of \pushl8
NegDigits == IF IsLit THEN code ELSE SubSeq(code, 1, Len(code) - 1)

\* the bits a list of one/zero instructions spells, first instruction first
SpelledBits(c) == {Len(c) - i : i \in {j \in 1..Len(c) : c[j].op = "one"}}

\* 2^w - m, for 0 < m <= 2^w: the complement of m - 1 in w bits
TwosComplement(w, m) == (0..(w - 1)) \ Dec(m)

\* 0 < m <= 2^w
AtMostPow(m, w) == BitLen(m) <= w \/ m = {w}

\* C27: for every negative literal value and every bitwidth w, the literal
\* pass emits exactly w instructions, each one or zero, that spell
\* 2^w - abs(value) most significant bit first; a value that does not fit in
\* w bits never yields a shorter sequence or an instruction derived from a
\* sign character.
C27_NegativeLiteralHasWidth ==
    NegLowered =>
        /\ Len(NegDigits) = WidthOf(SourceLiteral)
        /\ OnlyDigits(NegDigits)
        /\ AtMostPow(SourceLiteral.v, WidthOf(SourceLiteral))
              => SpelledBits(NegDigits) = TwosComplement(WidthOf(SourceLiteral), SourceLiteral.v)

\* the same for the values -2^(w-1) <= value < 0, which fit in w bits
C27_HoldsInRange ==
    (NegLowered /\ AtMostPow(SourceLiteral.v, WidthOf(SourceLiteral) - 1)) => C27_NegativeLiteralHasWidth

\* what the pass does for every negative value: as many instructions as
\* f"{2**w - abs(value):b}" has characters, the sign included
C27_DigitsOfDifference ==
    NegLowered =>
        /\ OnlyDigits(NegDigits)
        /\ AtMostPow(SourceLiteral.v, WidthOf(SourceLiteral))
              => /\ SpelledBits(NegDigits) = TwosComplement(WidthOf(SourceLiteral), SourceLiteral.v)
                 /\ Len(NegDigits) = 1 \/ NegDigits[1].op = "one"
        /\ ~AtMostPow(SourceLiteral.v, WidthOf(SourceLiteral)) => NegDigits[1].op = "zero" /\ Len(NegDigits) >= 2

\* ${-1} has become 64 times one
C27_InRangeWitness ==
    /\ NegLowered /\ IsLit
    /\ src[1].v = {0} /\ src[1].w = NoWidth
    /\ Len(code) = 64
    /\ \A i \in 1..64 : code[i] = Ins("one")

\* ${-5:3} has become one, one: 2^3 - 5 = 3 without its leading zero
C27_ShortWitness ==
    /\ NegLowered /\ IsLit
    /\ src[1].v = {0, 2} /\ src[1].w = 3
    /\ code = <<Ins("one"), Ins("one")>>

\* ${-9:3} has become zero, one: the characters of "-1"
C27_SignWitness ==
    /\ NegLowered /\ IsLit
    /\ src[1].v = {0, 3} /\ src[1].w = 3
    /\ code = <<Ins("zero"), Ins("one")>>

----------------------------------------------------------------------------
(* SpecBoth: the lowered code of one pseudo-op, or of a function with an    *)
(* \autolabel, given to the native generator or to the assembly generator.  *)

\* main of 22lan_nyulan.py: the lowered file is parsed and handed to a new
\* NyulanGenerator in place of the C++ generator
NyulanMain ==
    /\ phase = "lowered"
    /\ ip = 1
    /\ phase' = "nyulan"
    /\ UNCHANGED <<src, code, log, funcs, labels, cur, cts, steps, ip, regs, stk, snap, macros,
                   debug, depth, b32, initial, funcinfo>>

BothInputs ==
    SelfInputs
    \cup {[funcs |-> ("f" :> FuncId(FALSE, {})),
           src |-> <<Ins("startfunc"), AutoLabel("loop"), Ins("endfunc")>>]}

InitBoth ==
    /\ phase = "source"
    /\ \E in \in BothInputs : funcs = in.funcs /\ src = in.src
    /\ code = src
    /\ log = <<>>
    /\ labels = EmptyFn
    /\ cur = NoCur
    /\ cts = {}
    /\ steps = <<>>
    /\ ip = 1
    /\ regs = [i \in 0..3 |-> {}]
    /\ \E a \in StackSamples : stk = (0 :> a) @@ (1 :> <<7>>) @@ (2 :> <<>>)
    /\ snap = [regs |-> regs, stk |-> stk]
    /\ macros = EmptyFn
    /\ debug = FALSE
    /\ depth = 0
    /\ b32 = <<>>
    /\ initial = [i \in 0..2 |-> <<>>]
    /\ funcinfo = <<>>

NextBoth ==
    \/ ResolvePseudoOps
    \/ ResolveDependantPseudoOps
    \/ ResolveFuncref
    \/ ResolveLiteral
    \/ TranslateLine
    \/ RunStep
    \/ NyulanMain
    \/ NyulanTranslateLine
    \/ NyulanRunStep

SpecBoth == InitBoth /\ [][NextBoth]_vars

\* the instruction names the lowering passes emit for an error-free program
EmittedNames ==
    {"one", "zero", "pushl8", "pop8s0", "push8s1", "pop8s1", "lshift",
     "xchg03", "xchg13", "xchg23", "deflabel", "call"}

\* a generator has raised ParseError at the line before ip
Rejected == phase = "parse_error"

\* C28: every instruction name that the lowering passes can emit for an
\* error-free program is accepted by both the native and the assembly
\* backend, neither of which raises an invalid-instruction error on it.
C28_BothBackendsAccept == Rejected => code[ip - 1].op \notin EmittedNames

\* the names that are rejected when no pass has reported an error are the
\* three register swaps; the native generator has a branch for each of
\* them, so the rejection is one of the assembly generator
C28_OnlySwapsRejected ==
    (Rejected /\ log = <<>>) =>
        /\ code[ip - 1].op \in {"xchg03", "xchg13", "xchg23"}
        /\ ~GenLine(cts, code[ip - 1]).raised
        /\ NyulanGenLine(cts, code[ip - 1]).raised

\* every emitted name is accepted by the native generator, and every one but
\* the three swaps by the assembly generator
C28_AcceptedNames ==
    \A n \in EmittedNames :
        /\ ~GenLine(cts, Ins(n)).raised
        /\ n \notin {"xchg03", "xchg13", "xchg23"} => ~NyulanGenLine(cts, Ins(n)).raised

\* the assembly generator has stopped at the xchg13 of \autopushltor0 0x1234
C28_RejectedWitness ==
    /\ Rejected
    /\ src[1].op = "autopushltor0"
    /\ src[1].v = {2, 4, 5, 9, 12}
    /\ code[ip - 1] = Ins("xchg13")
    /\ ip = 2

\* the native generator has translated the same sequence
C28_NativeWitness ==
    /\ phase = "run"
    /\ src[1].op = "autopushltor0"
    /\ src[1].v = {2, 4, 5, 9, 12}
    /\ steps[1].op = "xchg13"

\* the assembly generator has translated \call f of a short id, and the
\* function with a label
C28_AssemblyWitness ==
    /\ phase = "nyulan_run"
    /\ \/ src[1].op = "call" /\ steps[Len(steps)].op = "CALL"
       \/ src[1].op = "startfunc" /\ steps[1].op = "label"

----------------------------------------------------------------------------
(* The entry code of the native backend.  CPlusPlusGenerator.start decodes  *)
(* the collected tokens itself and writes one s<k>.push per byte.           *)

Reverse(s) == [i \in 1..Len(s) |-> s[Len(s) + 1 - i]]

NoBytes == [i \in 0..2 |-> <<>>]

\* the decoding in start: the tokens are split at the backslashes as they
\* were collected; _decompress_base32 is not called
start_initializer(text, init) ==
    IF text = <<>> THEN [raised |-> FALSE, initial |-> init]
    ELSE LET tagged == IF text[1] # "\\" THEN <<"\\", "1">> \o text ELSE text
         IN DecodePieces(Split(tagged, "\\", <<>>), [raised |-> FALSE, initial |-> init])

\* CPlusPlusGenerator.start, and lan22::init() of the emitted program: the
\* bytes of initial_s<k> are pushed in reverse, the registers are zeroed
start ==
    /\ phase = "token"
    /\ \E d \in {start_initializer(b32, initial)} :
          /\ phase' = IF d.raised THEN "seed_raised" ELSE "seeded"
          /\ initial' = d.initial
          /\ stk' = IF d.raised THEN stk ELSE [i \in 0..2 |-> Reverse(d.initial[i])]
          /\ regs' = IF d.raised THEN regs ELSE [i \in 0..3 |-> {}]
    /\ UNCHANGED <<src, code, log, funcs, labels, cur, cts, steps, ip, snap, macros, debug,
                   depth, b32, funcinfo>>

----------------------------------------------------------------------------
(* SpecSeed: the tokens of a program, as the encoder writes them, collected *)
(* by the generator and given to the shared decoder or to start.            *)

\* byte sequences for the programs with two tokens
ShortSeqs == UNION {[1..n -> CodecBytes] : n \in 0..1}

\* one tagged token; one token without a tag; two tagged tokens
SeedTokens ==
    {StackToken(k, bytes) : k \in 0..2, bytes \in ByteSeqs}
    \cup {encode_stack_initializer(bytes) : bytes \in ByteSeqs \ {<<>>}}
    \cup {StackToken(k1, b1) \o StackToken(k2, b2) :
            k1 \in 0..2, k2 \in 0..2, b1 \in ShortSeqs \ {<<>>}, b2 \in ShortSeqs \ {<<>>}}

InitSeed ==
    /\ phase = "token"
    /\ funcs = EmptyFn
    /\ src = <<>>
    /\ code = <<>>
    /\ log = <<>>
    /\ labels = EmptyFn
    /\ cur = NoCur
    /\ cts = {}
    /\ steps = <<>>
    /\ ip = 1
    /\ regs = [i \in 0..3 |-> {}]
    /\ stk = NoBytes
    /\ snap = [regs |-> regs, stk |-> stk]
    /\ macros = EmptyFn
    /\ debug = FALSE
    /\ depth = 0
    /\ b32 \in SeedTokens
    /\ initial = NoBytes
    /\ funcinfo = <<>>

NextSeed == DecodeStackInitializer \/ start

SpecSeed == InitSeed /\ [][NextSeed]_vars

\* start has acted
Started == phase \in {"seeded", "seed_raised"}

\* what the shared decoder yields for the collected tokens
Decoded == decode_stack_initializer(b32, NoBytes)

\* the collected text begins with a token that has no tag
Untagged == b32[1] # "\\"

\* some token of the collected text is run-length compressed
Compressed == \E i \in 1..(Len(b32) - 1) : b32[i] = "\\" /\ b32[i + 1] = "S"

\* what the decoder yields for the same token tagged for stack 1
DecodedAsStack1 == decode_stack_initializer(<<"\\", "I">> \o b32, NoBytes)

\* C29: for every token the encoder can produce, compressed ones included,
\* and for an untagged token, the entry code of the native backend seeds the
\* byte-stacks with the bytes the shared decoder yields: stack k receives
\* the decoded bytes of every token tagged k in source order with the first
\* byte ending on top, and an untagged token seeds stack 1.
C29_EntrySeedsDecodedBytes ==
    /\ (Started /\ ~Untagged /\ ~Decoded.raised) =>
          /\ phase = "seeded"
          /\ \A k \in 0..2 : stk[k] = Reverse(Decoded.initial[k])
    /\ (Started /\ Untagged /\ ~DecodedAsStack1.raised) =>
          /\ phase = "seeded"
          /\ stk = [NoBytes EXCEPT ![1] = Reverse(DecodedAsStack1.initial[1])]

\* the same for the tagged tokens that are not compressed
C29_HoldsForPlainTagged == (~Untagged /\ ~Compressed) => C29_EntrySeedsDecodedBytes

\* start stops on every compressed token and on every untagged one
C29_StartRaises == (Started /\ (Untagged \/ Compressed)) => phase = "seed_raised"

\* the decoder stops on every untagged token as well
C29_DecoderRaisesUntagged == Untagged => Decoded.raised

\* two tokens for stack 2: the bytes in source order, the first on top
C29_SeededWitness ==
    /\ phase = "seeded"
    /\ b32 = StackToken(2, <<214>>) \o StackToken(2, <<31>>)
    /\ Decoded.initial[2] = <<214, 31>>
    /\ stk[2] = <<31, 214>>
    /\ Top(stk, 2) = 214

\* the token of four zero bytes: the decoder yields them, start stops
C29_CompressedWitness ==
    /\ phase = "seed_raised"
    /\ b32 = StackToken(0, <<0, 0, 0, 0>>)
    /\ Compressed
    /\ Decoded.initial[0] = <<0, 0, 0, 0>>
    /\ stk = NoBytes

\* an untagged token: start stops and stack 1 stays empty
C29_UntaggedWitness ==
    /\ phase = "seed_raised"
    /\ b32 = encode_stack_initializer(<<214, 31>>)
    /\ DecodedAsStack1.initial[1] = <<214, 31>>
    /\ stk[1] = <<>>

----------------------------------------------------------------------------
(* Claims about the function index of pass 1 (SpecLabels) *)

AutoLiteralLines == {i \in 1..Len(src) : src[i].k = "pseudo" /\ src[i].op = "autoliteral"}

\* the last \autolabel of the same name in the function of line i
LastLabel(i) == MaxOf(LabelLines(FuncOf(i), src[i].name))

\* pass 1 has stopped with KeyError on this program
Pass1Raised == phase = "raised" /\ Pass1Scan(funcs, Pass1Start(EmptyFn), src).raised

\* pass 1 has run over the program, to its end or to an exception
Pass1Over == phase = "pass1" \/ Pass1Raised

\* C30: in pass 1 the function index used to mangle label names and the
\* per-function label table change only at real startfunc/endfunc
\* instruction lines: at every line the index equals the number of endfunc
\* instructions before it, and a comment line whose text begins with the
\* word startfunc or endfunc neither advances the index, nor resets the
\* auto-label counter, nor clears the labels already recorded for the
\* current function.
C30_IndexFollowsInstructions ==
    Pass1Over =>
        /\ phase = "pass1"
        /\ \A i \in AutoLiteralLines : code[Pos(i)].fi = FuncOf(i)
        /\ \A i \in AutoLabelLines :
              /\ code[Pos(i)] = Lit(FALSE, Nat2Bits(Rank(i)), NoWidth)
              /\ FuncOf(i) \in DOMAIN labels
              /\ src[i].name \in DOMAIN labels[FuncOf(i)]
              /\ labels[FuncOf(i)][src[i].name] = Rank(LastLabel(i))

\* the same for the programs that have no comment line
C30_HoldsWithoutComments == NoComments => C30_IndexFollowsInstructions

\* a comment that begins with endfunc has advanced the index: the reference
\* after it, in function 0, is mangled with index 1
C30_AdvancedWitness ==
    /\ phase = "pass1"
    /\ src[2] = Comment("endfunc")
    /\ src[3] = AutoLiteralRef("loop")
    /\ FuncOf(3) = 0
    /\ code[Pos(3)].fi = 1

\* a comment that begins with startfunc has cleared the labels of function 0
C30_ClearedWitness ==
    /\ phase = "pass1"
    /\ src[2] = AutoLabel("loop")
    /\ src[3] = Comment("startfunc")
    /\ FuncOf(3) = 0
    /\ "loop" \notin DOMAIN labels[0]

\* a comment that begins with endfunc has reset the counter: the second
\* \autolabel of function 0 is given id 0, under index 1
C30_ResetWitness ==
    /\ src[2] = AutoLabel("loop")
    /\ src[3] = Comment("endfunc")
    /\ src[4] = AutoLabel("top")
    /\ Pass1Over
    /\ code[Pos(4)] = Lit(FALSE, {}, NoWidth)

\* a program without comments: labels of both functions are recorded
C30_PlainWitness ==
    /\ phase = "pass1"
    /\ NoComments
    /\ src[2] = AutoLabel("top") /\ src[3] = AutoLabel("loop")
    /\ labels[0] = ("top" :> 0) @@ ("loop" :> 1)
    /\ \E i \in AutoLabelLines : FuncOf(i) = 1 /\ labels[1][src[i].name] = Rank(LastLabel(i))

====
